---- MODULE Spec2Model ----
(***************************************************************************)
(* A model of the rtmessage client connection of rbus-rdk (Go SDK).        *)
(*                                                                         *)
(* Spec / LiveSpec : sdks/go/rtmessage/connection.go, the revision with    *)
(*                   options, listener registries and a mutex held by      *)
(*                   Connect, Disconnect, Send and Subscribe.              *)
(* StalledSpec     : Spec with the fairness of LiveSpec but for the return *)
(*                   of a socket write.                                    *)
(* SpecCb          : the callback revision of the same connection, whose   *)
(*                   Send and SendRequest write header and payload with    *)
(*                   no mutex held.                                        *)
(* SpecRead        : the main revision's New with every kind of URL and    *)
(*                   with listener options, Connect, Disconnect and the     *)
(*                   readers, with a peer that sends one frame more.        *)
(* SpecCodec       : one Message through marshal and unmarshal, or through *)
(*                   encode and decode of the internal package, the bytes   *)
(*                   delivered to the reader in chunks.                     *)
(* SpecPeer        : one frame laid out by the peer, well-formed or not,   *)
(*                   read by unmarshal or by decode.                       *)
(* SpecDeadline    : setReadDeadline and setWriteDeadline for every        *)
(*                   timeout option, context deadline and time.            *)
(* SpecSend        : several calls of send on one socket at different      *)
(*                   times, each with its own context deadline.            *)
(* SpecRoute       : the route id counters of both revisions, run up to    *)
(*                   and past the point where they wrap.                    *)
(*                                                                         *)
(* A frame is abstracted to FrameLen units; a socket write accepts any     *)
(* non-empty prefix of the bytes it is given (a short write).              *)
(***************************************************************************)
EXTENDS Integers, Sequences, FiniteSets, TLC

---------------------------------------------------------------------------
(* Bounds of the model. *)

\* sockets that dialling may open (sessions are numbered 1..MaxSessions)
MaxSessions == 2
\* API calls made by the callers, all operations together
MaxOps == 3
\* units (write granules) of one encoded frame
FrameLen == 2
\* inbound frames the peer delivers, all sessions together
MaxRecv == 1
\* the modulus of the route id counter: a uint32 wraps at 2^32, which is scaled
\* down to a modulus the checker can count to
RouteIdMod == 16

---------------------------------------------------------------------------
(* The actors. *)

\* goroutines of the application that call the API
Callers == {"A", "B"}
Sessions == 1..MaxSessions
\* the goroutine readLoop of session k
RName(k) == "r" \o ToString(k)
Readers == {RName(k) : k \in Sessions}
Threads == Callers \cup Readers

\* listeners the application may register; e2 and m2 call Disconnect
\* from inside their callback
ErrListenerIds == {"e1", "e2"}
MsgListenerIds == {"m2"}
DisconnectingListeners == {"e2", "m2"}

\* URLs offered to New, each named by its scheme
Schemes == {"unix", "http"}
\* a URL with scheme s that url.Parse accepts, as "unix:///tmp/rtrouted"
URL(s) == [scheme |-> s, parses |-> TRUE]
\* every kind of URL: the two schemes New supports, another scheme, no scheme,
\* and URLs with a scheme that url.Parse refuses, as "http://[::1"
RawURLs == {URL(s) : s \in {"unix", "tcp", "http", ""}}
               \cup {[scheme |-> s, parses |-> FALSE] : s \in {"unix", "http"}}
\* the value of rawURL before New is called
NoURL == [scheme |-> "none", parses |-> FALSE]
\* the lists of listeners offered to New as WithMessageListener options; m1
\* only takes the message
OptionListeners == {<<>>, <<"m1">>}
\* topics offered to WithSubscription and Subscribe
Topics == {"A.B.C"}
\* topics offered to Send ("" is rejected by marshal)
SendTopics == {"", "A.B.C"}

NoConn == 0

VARIABLES
    phase,          \* "new": New not called; "ready": New returned c; "failed": New returned an error
    crashed,        \* the process ended by an unrecovered panic
    url,            \* c.url.Scheme
    conn,           \* c.conn: NoConn (nil) or the session whose socket it is
    cancel,         \* c.cancel: NoConn (nil) or the session whose context it cancels
    m,              \* c.m: "free" or the thread that holds the mutex
    subscriptions,  \* c.subscriptions: [nil, keys]
    errListeners,   \* c.errListeners, in registration order
    msgListeners,   \* c.msgListeners, in registration order
    routeID,        \* c.routeID
    dialed,         \* sockets opened so far
    closed,         \* closed[k]: Close was called on the socket of session k
    ctxDone,        \* ctxDone[k]: the context handed to readLoop of session k is cancelled
    wire,           \* wire[k]: the units written to the socket of session k, in order
    ops,            \* API calls made so far
    nframes,        \* frames marshalled so far
    nrecv,          \* inbound frames delivered so far
    op,             \* op[p]: the operation caller p is in, or was last in
    pc,             \* pc[p]: the position of caller p inside op[p]
    res,            \* res[p]: what the last call of p returned ("none" while it runs)
    cdone,          \* cdone[p]: the context p passed to Send/Subscribe is cancelled
    midCancel,      \* midCancel[p]: that context was cancelled while bytes of the frame were unwritten
    frame,          \* frame[p]: the frame p is writing, or wrote last
    sent,           \* sent[p]: units of frame[p] written so far
    todo,           \* todo[p]: topics Connect has still to subscribe to
    rpc,            \* rpc[k]: the position of readLoop of session k
    rsock,          \* rsock[k]: the socket unmarshal of reader k reads from
    rerr,           \* rerr[k]: the error reader k got, "none" if none
    rvisit,         \* rvisit[k]: listeners the running Visit has still to call
    dpc,            \* dpc[t]: the position of thread t inside Disconnect ("none" outside)
    dret,           \* dret[t]: what the last Disconnect of t returned
    notified,       \* <<k, l, e>>: reader k called OnReadError(e) of listener l
    errReg,         \* errReg[k]: the read-error listeners registered when reader k got its error
    rawURL,         \* the URL New was given: its scheme, and whether url.Parse accepts it
    newErr,         \* the error New returned, "none" if none
    inbound,        \* frames the peer sends during the run
    rmsg,           \* rmsg[k]: the frame unmarshal of reader k returned last, numbered in order of completion
    delivered       \* <<l, n>>: OnMessage of listener l was called with frame n; in order of the calls

connVars == <<phase, crashed, url, conn, cancel, m, subscriptions, errListeners,
              msgListeners, routeID, dialed, closed, ctxDone, wire, ops, nframes,
              nrecv, op, pc, res, cdone, midCancel, frame, sent, todo, rpc, rsock,
              rerr, rvisit, dpc, dret, notified, errReg, rawURL, newErr, inbound,
              rmsg, delivered>>

\* the callback revision of the connection (specification SpecCb)
VARIABLES
    con,             \* c.con: NoConn (nil) or the session whose socket it is
    cbcancel,        \* c.cancel: NoConn (nil) or the session whose context it cancels
    cbm,             \* c.m: "free" or the caller that holds the mutex
    counter,         \* c.generator.counter
    messageHandlers, \* the keys of c.messageHandlers
    state,           \* c.state, the ReadState of readLoop
    cbdialed,        \* sockets opened so far
    cbclosed,        \* cbclosed[k]: Close was called on the socket of session k
    cbctxDone,       \* cbctxDone[k]: the context made by the Connect of session k is cancelled
    cbwire,          \* cbwire[k]: the units written to the socket of session k, in order
    cbops,           \* API calls made so far
    cbnframes,       \* headers encoded so far
    cbnrecv,         \* reads of readLoop that returned data so far
    cbop,            \* cbop[p]: the operation caller p is in, or was last in
    cbpc,            \* cbpc[p]: the position of caller p inside cbop[p]
    cbres,           \* cbres[p]: what the last call of p returned ("none" while it runs)
    cbcdone,         \* cbcdone[p]: the context p passed to its call is cancelled
    cbframe,         \* cbframe[p]: the frame p is writing, or wrote last
    cbsock,          \* cbsock[p]: the conn argument of the running sendAll of p
    cbsent,          \* cbsent[p]: units of cbframe[p] written so far
    cbrpc,           \* cbrpc[k]: the position of readLoop of session k
    dispatched,      \* what readLoop did with each completed frame, in order
    cbheader,        \* cbheader[k]: the local variable header of readLoop k
    cbcrashed        \* the process ended by an unrecovered panic

cbVars == <<con, cbcancel, cbm, counter, messageHandlers, state, cbdialed,
            cbclosed, cbctxDone, cbwire, cbops, cbnframes, cbnrecv, cbop, cbpc,
            cbres, cbcdone, cbframe, cbsock, cbsent, cbrpc, dispatched, cbheader,
            cbcrashed>>

\* route ids in the order they were handed out, by c.routeID of the main
\* revision (issued.routeID) and by c.generator of the callback revision
\* (issued.generator)
VARIABLES issued

\* The codecs: one message is encoded, its bytes are delivered to the reader in
\* chunks, and the reader decodes them.
VARIABLES
    cpc,            \* "off", or how far the one message has got
    input,          \* the package whose codec is used and the Message given to it
    encoded,        \* what marshal or encode returned: the error and the bytes
    reads,          \* the chunks the successive Reads of the socket return
    decoded,        \* what unmarshal or decode returned: the error, the Message, the bytes not read
    heard           \* the Messages readLoop called the message listeners with, in order

codecVars == <<cpc, input, encoded, reads, decoded, heard>>

\* The deadlines of the socket. Times are whole numbers, 0 is the zero
\* time.Time (no deadline) and, for a timeout, the option not given.
VARIABLES
    readTimeout,    \* c.readTimeout
    writeTimeout,   \* c.writeTimeout
    now,            \* time.Now() when the deadline is computed
    ctxDeadline,    \* the deadline of the caller's context, 0 if it has none
    readDeadline,   \* setReadDeadline: not yet run, run without a call of
                    \* c.conn.SetReadDeadline, or the time it was called with
    writeDeadline,  \* the same for setWriteDeadline and c.conn.SetWriteDeadline
    nsend,          \* calls of c.send made on the socket so far
    wres            \* what the last c.send returned, "none" before the first

timeVars == <<readTimeout, writeTimeout, now, ctxDeadline, readDeadline, writeDeadline,
              nsend, wres>>

vars == <<connVars, cbVars, issued, codecVars, timeVars>>

---------------------------------------------------------------------------
(* Helpers. *)

Range(s) == {s[i] : i \in 1..Len(s)}

RECURSIVE Perms(_)
\* every order in which a range over the map may yield the keys S
Perms(S) == IF S = {} THEN {<<>>}
            ELSE UNION {{<<x>> \o q : q \in Perms(S \ {x})} : x \in S}

\* the sequence s without its element x
Without(s, x) == SelectSeq(s, LAMBDA y : y # x)

NoFrame == [id |-> 0, kind |-> "none", topic |-> "", route |-> 0, sock |-> 0]

\* the units i+1..i+n of frame f
Units(f, i, n) == [j \in 1..n |-> [f |-> f, i |-> i + j]]

---------------------------------------------------------------------------
(* Groups of variables, for UNCHANGED. *)

G_static == <<phase, url>>
G_reg    == <<errListeners, msgListeners>>
G_conn   == <<conn, cancel, closed, ctxDone>>
G_count  == <<ops, nframes, nrecv, dialed>>
G_send   == <<cdone, midCancel, frame, sent, todo>>
G_reader == <<rsock, rerr, rvisit, notified, errReg>>

---------------------------------------------------------------------------
(* Pieces of the code that the actions share. *)

\* c.m.Lock() returns only when no thread holds the mutex
MutexFree == m = "free"

\* a return path that leaves the mutex held
Unlocked_held(t) == t

\* defer c.m.Unlock(): the value of the mutex after thread t returns
Unlocked(t) == "free"

\* a Connect without the early return
ConnectNoop_never == FALSE

\* Connect: if c.conn != nil { return nil }
ConnectNoop == conn # NoConn

\* a Disconnect without the early return
DisconnectNoop_never == FALSE

\* Disconnect: if c.conn == nil { return nil }
DisconnectNoop == conn = NoConn

\* the private inbox topic, fmt.Sprintf("%s.INBOX.%d", c.name, c.id)
Inbox == "name.INBOX.id"

\* a Connect that forgets the inbox
SubscribeList_noInbox(keys) == Perms(keys)

\* Connect: the inbox followed by the keys of c.subscriptions, in the order
\* the range over the map yields them (ranging over a nil map yields none)
SubscribeList(keys) == {<<Inbox>> \o q : q \in Perms(keys)}

\* a readLoop that returns on a read error without the Visit
OnReadError_skip(ls) == <<>>

\* readLoop: the listeners c.errListeners.Visit calls on a read error
OnReadError(ls) == ls

\* readLoop: the listeners c.msgListeners.Visit calls on a message
OnMessage(ls) == ls

\* atomic.AddUint32(&c.routeID, 1)
nextRouteID(r) == (r + 1) % RouteIdMod

\* the record of ids handed out, after generator g handed out id
Issue(g, id) == [issued EXCEPT ![g] = Append(@, id)]

\* the session whose readLoop is thread t
SessionOf(t) == CHOOSE k \in Sessions : RName(k) = t

\* a caller's call returns r
Return(p, r) == /\ pc' = [pc EXCEPT ![p] = "idle"]
                /\ res' = [res EXCEPT ![p] = r]

\* the context c.send of caller p selects on: the reader's context inside
\* Connect, the caller's own inside Send and Subscribe
SendCtxDone(p) ==
    IF op[p] = "Connect"
    THEN frame[p].sock = NoConn \/ ctxDone[frame[p].sock]
    ELSE cdone[p]

\* a c.send that tears the connection down when its context is cancelled
SendReturn_disconnects(p, r) ==
    /\ IF op[p] = "Connect" /\ r = "ok"
       THEN /\ pc' = [pc EXCEPT ![p] = "Connect.subscribe"]
            /\ UNCHANGED <<res, m>>
       ELSE /\ Return(p, r)
            /\ m' = Unlocked(p)
    /\ IF r = "cancelled"
       THEN /\ conn' = NoConn
            /\ cancel' = NoConn
            /\ closed' = [closed EXCEPT ![conn] = TRUE]
            /\ ctxDone' = [ctxDone EXCEPT ![conn] = TRUE]
       ELSE UNCHANGED G_conn

\* c.send of caller p returns r: Connect carries on with its next topic after
\* a success and returns the error otherwise; Send and Subscribe return r.
\* No path out of c.send touches the socket, c.conn or c.cancel.
SendReturn(p, r) ==
    /\ IF op[p] = "Connect" /\ r = "ok"
       THEN /\ pc' = [pc EXCEPT ![p] = "Connect.subscribe"]
            /\ UNCHANGED <<res, m>>
       ELSE /\ Return(p, r)
            /\ m' = Unlocked(p)
    /\ UNCHANGED G_conn

\* Disconnect of thread t returns r: a caller gets r; a readLoop that ran it as
\* its deferred call ends, one that ran it inside a listener carries on
AfterDisconnect(t, r) ==
    IF t \in Callers
    THEN /\ Return(t, r)
         /\ UNCHANGED rpc
    ELSE /\ rpc' = [rpc EXCEPT ![SessionOf(t)] = IF @ = "defer" THEN "exited" ELSE @]
         /\ UNCHANGED <<pc, res>>

Alive == phase = "ready" /\ ~crashed

---------------------------------------------------------------------------
(* The wire format: sdks/go/rtmessage/message.go (marshal, unmarshal) and   *)
(* sdks/go/internal/rtmessage/message.go (encode, decode). A byte is a      *)
(* number in 0..255, a string or a []byte is the sequence of its bytes; a   *)
(* nil slice and an empty one are both <<>>.                                 *)

flags_REQUEST == 1
flags_RESPONSE == 2
flags_UNDELIVERABLE == 4
flags_TAINTED == 8
flags_RAW_BINARY == 16
flags_ENCRYPTED == 32

header_VERSION == 2
header_MARKER == 43690
header_MAX_TOPIC_LEN == 128
header_LEN_NO_TS == 32
header_LEN_W_TS == 52

MsgTypeUnknown == 0
MsgTypeRequest == 1
MsgTypeResponse == 2

PayloadTypeUnknown == 0
PayloadTypeMsgPack == 1
PayloadTypeBinary == 2

\* the conversions uint16(x) and, in flagsIn, flags & bit != 0
uint16(x) == x % 65536
HasFlag(flags, bit) == (flags \div bit) % 2 = 1

\* binary.BigEndian: two and four bytes, most significant first
BE16(v) == <<(v \div 256) % 256, v % 256>>
BE32(v) == <<(v \div 16777216) % 256, (v \div 65536) % 256, (v \div 256) % 256, v % 256>>
U16(b) == b[1] * 256 + b[2]
U32(b) == ((b[1] * 256 + b[2]) * 256 + b[3]) * 256 + b[4]

Min(a, b) == IF a <= b THEN a ELSE b

\* n bytes of value x
Bytes(n, x) == [i \in 1..n |-> x]

\* all the bytes of a sequence of chunks
RECURSIVE Flatten(_)
Flatten(r) == IF r = <<>> THEN <<>> ELSE Head(r) \o Flatten(Tail(r))

\* a flagsOut whose case MsgTypeResponse also sets the request bit
flagsOut_fallthrough(msg) ==
    (IF msg.Type = MsgTypeRequest THEN flags_REQUEST
     ELSE IF msg.Type = MsgTypeResponse THEN flags_REQUEST + flags_RESPONSE ELSE 0)
    + (IF msg.Encrypted THEN flags_ENCRYPTED ELSE 0)
    + (IF msg.Undeliverable THEN flags_UNDELIVERABLE ELSE 0)
    + (IF msg.PayloadType = PayloadTypeBinary THEN flags_RAW_BINARY ELSE 0)

\* flagsOut: the flags field of a Message
flagsOut(msg) ==
    (IF msg.Type = MsgTypeRequest THEN flags_REQUEST
     ELSE IF msg.Type = MsgTypeResponse THEN flags_RESPONSE ELSE 0)
    + (IF msg.Encrypted THEN flags_ENCRYPTED ELSE 0)
    + (IF msg.Undeliverable THEN flags_UNDELIVERABLE ELSE 0)
    + (IF msg.PayloadType = PayloadTypeBinary THEN flags_RAW_BINARY ELSE 0)

\* the zero value of Message
ZeroMessage ==
    [Type |-> MsgTypeUnknown, PayloadType |-> PayloadTypeUnknown,
     Encrypted |-> FALSE, Undeliverable |-> FALSE, SequenceNumber |-> 0,
     ControlData |-> 0, Topic |-> <<>>, ReplyTopic |-> <<>>,
     Timestamps |-> <<>>, Payload |-> <<>>]

\* flagsIn: sets the type and the flags of msg from the flags field; a field
\* it has no case for is left as it was
flagsIn(msg, flags) ==
    [msg EXCEPT
        !.Type = IF HasFlag(flags, flags_REQUEST) /\ ~HasFlag(flags, flags_RESPONSE)
                 THEN MsgTypeRequest
                 ELSE IF HasFlag(flags, flags_RESPONSE) /\ ~HasFlag(flags, flags_REQUEST)
                 THEN MsgTypeResponse
                 ELSE @,
        !.PayloadType = IF HasFlag(flags, flags_RAW_BINARY) THEN PayloadTypeBinary ELSE @,
        !.Encrypted = IF HasFlag(flags, flags_ENCRYPTED) THEN TRUE ELSE @,
        !.Undeliverable = IF HasFlag(flags, flags_UNDELIVERABLE) THEN TRUE ELSE @]

\* writeOrDie of a string: its length as a uint32, then its bytes
writeString(str) == BE32(Len(str)) \o str

\* marshal: headerLength := header_LEN_W_TS + len(m.Topic) + len(m.ReplyTopic);
\* the fields in wire order, five uint32(0) where the timestamps go, the
\* trailing marker, the payload. Writes to a bytes.Buffer do not fail.
marshal(msg) ==
    IF msg.Topic = <<>>
    THEN [err |-> "topic is required", b |-> <<>>]
    ELSE LET headerLength == header_LEN_W_TS + Len(msg.Topic) + Len(msg.ReplyTopic)
         IN  [err |-> "nil",
              b |-> BE16(header_MARKER)
                    \o BE16(header_VERSION)
                    \o BE16(uint16(headerLength))
                    \o BE32(msg.SequenceNumber)
                    \o BE32(flagsOut(msg))
                    \o BE32(msg.ControlData)
                    \o BE32(Len(msg.Payload))
                    \o writeString(msg.Topic)
                    \o writeString(msg.ReplyTopic)
                    \o BE32(0) \o BE32(0) \o BE32(0) \o BE32(0) \o BE32(0)
                    \o BE16(header_MARKER)
                    \o msg.Payload]

\* io.ReadAtLeast: Read is called until n bytes are there. A Read returns the
\* bytes of the next chunk, or as many of them as still fit; at the end of the
\* stream it returns io.EOF, which becomes io.ErrUnexpectedEOF once some bytes
\* were read.
RECURSIVE ReadAtLeast(_, _, _)
ReadAtLeast(r, n, got) ==
    IF Len(got) >= n
    THEN [data |-> got, r |-> r, err |-> "nil"]
    ELSE IF r = <<>>
    THEN [data |-> got \o Bytes(n - Len(got), 0), r |-> r,
          err |-> IF got = <<>> THEN "EOF" ELSE "ErrUnexpectedEOF"]
    ELSE LET c == Head(r)
             k == Min(Len(c), n - Len(got))
             rest == IF k = Len(c) THEN Tail(r)
                     ELSE <<SubSeq(c, k + 1, Len(c))>> \o Tail(r)
         IN  ReadAtLeast(rest, n, got \o SubSeq(c, 1, k))

\* a reader that calls Read once and takes the buffer as filled
ReadFull_oneRead(r, n) ==
    IF n = 0 \/ r = <<>>
    THEN [data |-> Bytes(n, 0), r |-> r, err |-> IF n = 0 THEN "nil" ELSE "EOF"]
    ELSE LET c == Head(r)
             k == Min(Len(c), n)
             rest == IF k = Len(c) THEN Tail(r)
                     ELSE <<SubSeq(c, k + 1, Len(c))>> \o Tail(r)
         IN  [data |-> SubSeq(c, 1, k) \o Bytes(n - k, 0), r |-> rest, err |-> "nil"]

\* io.ReadFull(r, buf) with len(buf) = n, which binary.Read and readOrDie call
ReadFull(r, n) == ReadAtLeast(r, n, <<>>)

\* readOrDie of a uint16, a uint32 and a string: nothing is read once an error
\* is set; st is the reader and the error so far, v the value read (the zero
\* value if the read failed)
readUint16(st) ==
    IF st.err # "nil" THEN [v |-> 0, r |-> st.r, err |-> st.err]
    ELSE LET x == ReadFull(st.r, 2)
         IN  [v |-> IF x.err = "nil" THEN U16(x.data) ELSE 0, r |-> x.r, err |-> x.err]

readUint32(st) ==
    IF st.err # "nil" THEN [v |-> 0, r |-> st.r, err |-> st.err]
    ELSE LET x == ReadFull(st.r, 4)
         IN  [v |-> IF x.err = "nil" THEN U32(x.data) ELSE 0, r |-> x.r, err |-> x.err]

\* readOrDie of ts[i]: four bytes are read into a variable that nothing reads
readTimestamp(st) ==
    IF st.err # "nil" THEN [v |-> 0, r |-> st.r, err |-> st.err]
    ELSE LET x == ReadFull(st.r, 4)
         IN  [v |-> 0, r |-> x.r, err |-> x.err]

readString(st) ==
    IF st.err # "nil" THEN [v |-> <<>>, r |-> st.r, err |-> st.err]
    ELSE LET length == readUint32(st)
         IN  IF length.err # "nil" THEN [v |-> <<>>, r |-> length.r, err |-> length.err]
             ELSE LET x == ReadFull(length.r, length.v)
                  IN  [v |-> IF x.err = "nil" THEN x.data ELSE <<>>,
                       r |-> x.r, err |-> x.err]

\* an UnmarshalError that reports no error
UnmarshalError_nil(e, r) == [err |-> "nil", m |-> ZeroMessage, r |-> r]

\* unmarshal returns an error and the zero Message
UnmarshalError(e, r) == [err |-> e, m |-> ZeroMessage, r |-> r]

\* unmarshal(r): the fields in wire order; the five timestamps are read, and
\* dropped, when headerSize says they are there; then the payload
unmarshal(r) ==
    LET preamble == readUint16([r |-> r, err |-> "nil"])
        version == readUint16(preamble)
        headerSize == readUint16(version)
        SequenceNumber == readUint32(headerSize)
        flags == readUint32(SequenceNumber)
        ControlData == readUint32(flags)
        payloadLength == readUint32(ControlData)
        Topic == readString(payloadLength)
        ReplyTopic == readString(Topic)
        ts == IF headerSize.v = uint16(header_LEN_W_TS + uint16(Len(Topic.v))
                                       + uint16(Len(ReplyTopic.v)))
              THEN readTimestamp(readTimestamp(readTimestamp(readTimestamp(
                       readTimestamp(ReplyTopic)))))
              ELSE ReplyTopic
        postamble == readUint16(ts)
    IN  IF preamble.v # header_MARKER THEN UnmarshalError("invalid preamble", preamble.r)
        ELSE IF version.v # header_VERSION THEN UnmarshalError("invalid version", version.r)
        ELSE IF postamble.v # header_MARKER
        THEN UnmarshalError("invalid postamble", postamble.r)
        ELSE IF postamble.err # "nil" THEN UnmarshalError(postamble.err, postamble.r)
        ELSE LET Payload == ReadFull(postamble.r, payloadLength.v)
             IN  IF Payload.err # "nil" THEN UnmarshalError(Payload.err, Payload.r)
                 ELSE [err |-> "nil",
                       m |-> flagsIn([ZeroMessage EXCEPT
                                         !.SequenceNumber = SequenceNumber.v,
                                         !.ControlData = ControlData.v,
                                         !.Topic = Topic.v,
                                         !.ReplyTopic = ReplyTopic.v,
                                         !.Payload = Payload.data], flags.v),
                       r |-> Payload.r]

\* part_004, readUntil(ctx, buf) with len(buf) = n and a context that is not
\* cancelled: c.con.Read(buf[read:]) until read = total; an error of Read is
\* returned
RECURSIVE readUntil(_, _, _)
readUntil(r, n, buf) ==
    IF Len(buf) >= n
    THEN [data |-> buf, r |-> r, err |-> "nil"]
    ELSE IF r = <<>>
    THEN [data |-> buf \o Bytes(n - Len(buf), 0), r |-> r, err |-> "EOF"]
    ELSE LET c == Head(r)
             k == Min(Len(c), n - Len(buf))
             rest == IF k = Len(c) THEN Tail(r)
                     ELSE <<SubSeq(c, k + 1, Len(c))>> \o Tail(r)
         IN  readUntil(rest, n, buf \o SubSeq(c, 1, k))

\* part_004, readLoop: const headerPreambleLength = uint16(6)
headerPreambleLength == 6

\* the zero value of the Message of the internal package
ZeroInternalMessage ==
    [SeqNum |-> 0, CtrlData |-> 0, Flags |-> 0, Topic |-> <<>>, ReplyTopic |-> <<>>,
     Payload |-> <<>>, Times |-> <<0, 0, 0, 0, 0>>]

\* internal package, encode: a topic or reply topic over header_MAX_TOPIC_LEN
\* is refused (no payload here reaches math.MaxUint32); the timing bytes are
\* appended only if one of m.Times is not zero; the length of the header is
\* written into buf[4:6] at the end
encode(msg) ==
    IF Len(msg.Topic) > header_MAX_TOPIC_LEN
    THEN [err |-> "ErrInvalidMsg: topic too large", b |-> <<>>]
    ELSE IF Len(msg.ReplyTopic) > header_MAX_TOPIC_LEN
    THEN [err |-> "ErrInvalidMsg: reply topic too large", b |-> <<>>]
    ELSE LET timing == BE32(msg.Times[1]) \o BE32(msg.Times[2]) \o BE32(msg.Times[3])
                       \o BE32(msg.Times[4]) \o BE32(msg.Times[5])
             send == \E i \in 1..5 : msg.Times[i] # 0
             buf == BE16(header_MARKER)
                    \o BE16(header_VERSION)
                    \o BE16(0)
                    \o BE32(msg.SeqNum)
                    \o BE32(msg.Flags)
                    \o BE32(msg.CtrlData)
                    \o BE32(Len(msg.Payload))
                    \o BE32(Len(msg.Topic)) \o msg.Topic
                    \o BE32(Len(msg.ReplyTopic)) \o msg.ReplyTopic
                    \o (IF send THEN timing ELSE <<>>)
                    \o BE16(header_MARKER)
         IN  [err |-> "nil",
              b |-> SubSeq(buf, 1, 4) \o BE16(uint16(Len(buf)))
                    \o SubSeq(buf, 7, Len(buf)) \o msg.Payload]

\* the Go slice expression s[lo:hi] (0-based, hi exclusive), and whether it
\* panics
Slice(s, lo, hi) == SubSeq(s, lo + 1, hi)
SlicePanics(s, lo, hi) == lo < 0 \/ hi < lo \/ hi > Len(s)

\* decode returns an error and the zero Message; a panic is recovered into
\* "buffer too small"
DecodeError(e) == [err |-> e, m |-> ZeroInternalMessage, r |-> <<>>]
BufferTooSmall == DecodeError("ErrInvalidMsg: buffer too small")

\* decode, from header := buf[4 : headerLen-1] on
decodeHeader(buf, headerLen) ==
    IF SlicePanics(buf, 4, headerLen - 1) \/ SlicePanics(buf, headerLen, Len(buf))
    THEN BufferTooSmall
    ELSE LET header == Slice(buf, 4, headerLen - 1)
             Payload == Slice(buf, headerLen, Len(buf))
         IN  IF Len(header) < 2 THEN BufferTooSmall
             ELSE IF header_MARKER # U16(Slice(header, Len(header) - 2, Len(header)))
             THEN DecodeError("ErrInvalidMsg: invalid trailing marker")
             ELSE LET h == Slice(header, 0, Len(header) - 2)
                  IN  IF Len(h) < 20 THEN BufferTooSmall
                      ELSE LET SeqNum == U32(Slice(h, 0, 4))
                               Flags == U32(Slice(h, 4, 8))
                               CtrlData == U32(Slice(h, 8, 12))
                               payloadLen == U32(Slice(h, 12, 16))
                               topicLen == U32(Slice(h, 16, 20))
                           IN  IF payloadLen # Len(Payload)
                               THEN DecodeError("ErrInvalidMsg: invalid payload lenght")
                               ELSE IF Len(h) < 20 + topicLen + 4 THEN BufferTooSmall
                               ELSE LET Topic == Slice(h, 20, 20 + topicLen)
                                        h2 == Slice(h, 20 + topicLen, Len(h))
                                        replyTopicLen == U32(Slice(h2, 0, 4))
                                    IN  IF Len(h2) < 4 + replyTopicLen THEN BufferTooSmall
                                        ELSE LET ReplyTopic == Slice(h2, 4, 4 + replyTopicLen)
                                                 h3 == Slice(h2, 4 + replyTopicLen, Len(h2))
                                                 msg == [ZeroInternalMessage EXCEPT
                                                            !.SeqNum = SeqNum,
                                                            !.Flags = Flags,
                                                            !.CtrlData = CtrlData,
                                                            !.Topic = Topic,
                                                            !.ReplyTopic = ReplyTopic,
                                                            !.Payload = Payload]
                                             IN  IF Len(h3) = 0
                                                 THEN [err |-> "nil", m |-> msg, r |-> <<>>]
                                                 ELSE IF Len(h3) = 5 * 4
                                                 THEN [err |-> "nil",
                                                       m |-> [msg EXCEPT !.Times =
                                                                [i \in 1..5 |->
                                                                   U32(Slice(h3, 4 * (i - 1), 4 * i))]],
                                                       r |-> <<>>]
                                                 ELSE DecodeError("ErrInvalidMsg: unknown protocol version")

\* internal package, decode: binary.BigEndian.Uint16 panics on a slice of fewer
\* than two bytes, and buf[2:3] is a slice of one byte
decode(buf) ==
    IF Len(buf) < 2 THEN BufferTooSmall
    ELSE IF header_MARKER # U16(Slice(buf, 0, 2))
    THEN DecodeError("ErrInvalidMsg: invalid leading marker")
    ELSE IF SlicePanics(buf, 2, 3) \/ Len(Slice(buf, 2, 3)) < 2
    THEN BufferTooSmall
    ELSE decodeHeader(buf, U16(Slice(buf, 2, 3)))

---------------------------------------------------------------------------
(* The codecs at work: a Message is encoded, the bytes reach the reader in  *)
(* chunks, the reader decodes them.                                          *)

\* the cuts made in one frame: a frame is delivered in at most MaxCuts + 1 chunks
MaxCuts == 2
\* the longest frame that is delivered in more than one chunk
MaxSplitLen == 64
\* the longest timeout, and the latest time.Now()
MaxTimeout == 3
MaxNow == 2

\* byte strings for topics, reply topics and payloads
TopicA == <<97>>
TopicAB == <<97, 46, 98>>
ReplyR == <<114>>
Payload2 == <<1, 2>>
\* a topic that brings the header to 65536 bytes, and one of 129 bytes
LongTopic == Bytes(65536 - header_LEN_W_TS, 97)
Topic129 == Bytes(header_MAX_TOPIC_LEN + 1, 97)

\* a MsgType that is none of the three constants
MsgTypeOther == MsgTypeResponse + 1

\* timestamps, in seconds: none, five zero ones, one of five set
NoTimes == <<>>
ZeroTimes == <<0, 0, 0, 0, 0>>
SomeTimes == <<0, 0, 7, 0, 0>>

\* the Messages given to marshal: every type with every payload type, every
\* flag, every shape, every kind of timestamps, topics and reply topics that
\* are too long, and a type that is no constant
Messages ==
    {[ZeroMessage EXCEPT !.Type = t, !.PayloadType = pt, !.Topic = TopicA] :
        t \in {MsgTypeUnknown, MsgTypeRequest, MsgTypeResponse},
        pt \in {PayloadTypeUnknown, PayloadTypeMsgPack, PayloadTypeBinary}}
    \cup
    {[ZeroMessage EXCEPT !.Type = MsgTypeRequest, !.Encrypted = e,
                         !.Undeliverable = u, !.Topic = TopicA] :
        e \in BOOLEAN, u \in BOOLEAN}
    \cup
    {[ZeroMessage EXCEPT !.Type = MsgTypeResponse, !.SequenceNumber = 66051,
                         !.ControlData = 1, !.Topic = tp, !.ReplyTopic = rt,
                         !.Payload = pl] :
        tp \in {<<>>, TopicA, TopicAB},
        rt \in {<<>>, ReplyR},
        pl \in {<<>>, Payload2}}
    \cup
    {[ZeroMessage EXCEPT !.Topic = TopicA, !.Timestamps = ts] :
        ts \in {NoTimes, ZeroTimes, SomeTimes}}
    \cup
    {[ZeroMessage EXCEPT !.Topic = LongTopic],
     [ZeroMessage EXCEPT !.Topic = Topic129],
     [ZeroMessage EXCEPT !.Topic = TopicA, !.ReplyTopic = Topic129],
     [ZeroMessage EXCEPT !.Type = MsgTypeOther, !.Topic = TopicA]}

\* the Messages given to encode of the internal package
InternalMessages ==
    {[SeqNum |-> sc[1], CtrlData |-> sc[2], Flags |-> fl, Topic |-> tp,
      ReplyTopic |-> rt, Payload |-> pl, Times |-> ts] :
        sc \in {<<0, 0>>, <<66051, 1>>},
        fl \in {0, flags_REQUEST + flags_ENCRYPTED},
        tp \in {<<>>, TopicA, Topic129},
        rt \in {<<>>, ReplyR},
        pl \in {<<>>, Payload2},
        ts \in {ZeroTimes, SomeTimes}}
    \cup
    {[ZeroInternalMessage EXCEPT !.Topic = TopicA, !.ReplyTopic = Topic129],
     [ZeroInternalMessage EXCEPT !.Topic = TopicA,
                                 !.Flags = flags_REQUEST + flags_RESPONSE]}

Inputs == {[pkg |-> "rtmessage", m |-> msg] : msg \in Messages}
              \cup {[pkg |-> "internal", m |-> msg] : msg \in InternalMessages}

NoInput == [pkg |-> "none", m |-> ZeroMessage]
NothingEncoded == [err |-> "none", b |-> <<>>]
NothingDecoded == [err |-> "none", m |-> ZeroMessage, r |-> <<>>, data |-> <<>>]

\* no codec runs
CodecOff ==
    /\ cpc = "off"
    /\ input = NoInput
    /\ encoded = NothingEncoded
    /\ reads = <<>>
    /\ decoded = NothingDecoded
    /\ heard = <<>>

\* the sets of at most k cut points in a frame of n + 1 bytes
RECURSIVE CutSets(_, _)
CutSets(n, k) ==
    IF k = 0 THEN {{}}
    ELSE LET less == CutSets(n, k - 1)
         IN  less \cup {S \cup {i} : S \in less, i \in 1..n}

\* the chunks of b when it is cut after the bytes numbered in cuts
RECURSIVE Split(_, _)
Split(b, cuts) ==
    IF cuts = {} THEN <<b>>
    ELSE LET c == CHOOSE x \in cuts : \A y \in cuts : x <= y
         IN  <<SubSeq(b, 1, c)>>
                 \o Split(SubSeq(b, c + 1, Len(b)), {x - c : x \in cuts \ {c}})

\* msg.marshal(), as c.send calls it
Marshal ==
    /\ cpc = "input"
    /\ input.pkg = "rtmessage"
    /\ encoded' = marshal(input.m)
    /\ cpc' = "encoded"
    /\ UNCHANGED <<connVars, cbVars, issued, timeVars, input, reads, decoded, heard>>

\* m.encode() of the internal package
Encode ==
    /\ cpc = "input"
    /\ input.pkg = "internal"
    /\ encoded' = encode(input.m)
    /\ cpc' = "encoded"
    /\ UNCHANGED <<connVars, cbVars, issued, timeVars, input, reads, decoded, heard>>

\* the socket hands the frame to the reader in chunks: each Read returns the
\* next chunk, or the part of it that fits
Deliver(cuts) ==
    /\ cpc = "encoded"
    /\ input.pkg = "rtmessage"
    /\ encoded.err = "nil"
    /\ reads' = Split(encoded.b, cuts)
    /\ cpc' = "delivered"
    /\ UNCHANGED <<connVars, cbVars, issued, timeVars, input, encoded, decoded, heard>>

\* readLoop: msg, err := unmarshal(c.conn); with an error the read-error
\* listeners are visited and readLoop returns, without one the message
\* listeners are visited with msg
Unmarshal ==
    /\ cpc = "delivered"
    /\ decoded' = unmarshal(reads) @@ [data |-> <<>>]
    /\ heard' = IF decoded'.err = "nil" THEN Append(heard, decoded'.m) ELSE heard
    /\ cpc' = "decoded"
    /\ UNCHANGED <<connVars, cbVars, issued, timeVars, input, encoded, reads>>

\* part_004, readLoop in ReadStateReadHeaderPreamble: readUntil(ctx, buff) with
\* buff of headerPreambleLength bytes
ReadHeaderPreamble ==
    /\ cpc = "delivered"
    /\ LET x == readUntil(reads, headerPreambleLength, <<>>)
       IN  decoded' = [err |-> x.err, m |-> ZeroMessage, r |-> x.r, data |-> x.data]
    /\ cpc' = "preamble"
    /\ UNCHANGED <<connVars, cbVars, issued, timeVars, input, encoded, reads, heard>>

\* decode(buf) of the internal package, given the whole frame
Decode ==
    /\ cpc = "encoded"
    /\ input.pkg = "internal"
    /\ encoded.err = "nil"
    /\ decoded' = decode(encoded.b) @@ [data |-> <<>>]
    /\ cpc' = "decoded"
    /\ UNCHANGED <<connVars, cbVars, issued, timeVars, input, encoded, reads, heard>>

---------------------------------------------------------------------------
(* The state before New is called. *)

InitConn ==
    /\ phase = "new"
    /\ crashed = FALSE
    /\ url = ""
    /\ conn = NoConn
    /\ cancel = NoConn
    /\ m = "free"
    /\ subscriptions = [nil |-> TRUE, keys |-> {}]
    /\ errListeners = <<>>
    /\ msgListeners = <<>>
    /\ routeID = 0
    /\ dialed = 0
    /\ closed = [k \in Sessions |-> FALSE]
    /\ ctxDone = [k \in Sessions |-> FALSE]
    /\ wire = [k \in Sessions |-> <<>>]
    /\ ops = 0
    /\ nframes = 0
    /\ nrecv = 0
    /\ op = [p \in Callers |-> "none"]
    /\ pc = [p \in Callers |-> "idle"]
    /\ res = [p \in Callers |-> "none"]
    /\ cdone = [p \in Callers |-> FALSE]
    /\ midCancel = [p \in Callers |-> FALSE]
    /\ frame = [p \in Callers |-> NoFrame]
    /\ sent = [p \in Callers |-> 0]
    /\ todo = [p \in Callers |-> <<>>]
    /\ rpc = [k \in Sessions |-> "idle"]
    /\ rsock = [k \in Sessions |-> NoConn]
    /\ rerr = [k \in Sessions |-> "none"]
    /\ rvisit = [k \in Sessions |-> <<>>]
    /\ dpc = [t \in Threads |-> "none"]
    /\ dret = [t \in Threads |-> "none"]
    /\ notified = {}
    /\ errReg = [k \in Sessions |-> {}]
    /\ rawURL = NoURL
    /\ newErr = "none"
    /\ rmsg = [k \in Sessions |-> 0]
    /\ delivered = <<>>

\* readLoop: var header *Header, and header = &Header{} when a preamble is
\* read; n is the number of frames completed before, which tells the frames
\* apart
NoHeader == [set |-> FALSE, frame |-> 0]
NewHeader(n) == [set |-> TRUE, frame |-> n + 1]

\* the callback revision after New returned a connection: every field but url,
\* appName, inboxName, state and messageHandlers has its zero value
InitCb ==
    /\ con = NoConn
    /\ cbcancel = NoConn
    /\ cbm = "free"
    /\ counter = 0
    /\ messageHandlers = {}
    /\ state = "ReadHeaderPreamble"
    /\ cbdialed = 0
    /\ cbclosed = [k \in Sessions |-> FALSE]
    /\ cbctxDone = [k \in Sessions |-> FALSE]
    /\ cbwire = [k \in Sessions |-> <<>>]
    /\ cbops = 0
    /\ cbnframes = 0
    /\ cbnrecv = 0
    /\ cbop = [p \in Callers |-> "none"]
    /\ cbpc = [p \in Callers |-> "idle"]
    /\ cbres = [p \in Callers |-> "none"]
    /\ cbcdone = [p \in Callers |-> FALSE]
    /\ cbframe = [p \in Callers |-> NoFrame]
    /\ cbsock = [p \in Callers |-> NoConn]
    /\ cbsent = [p \in Callers |-> 0]
    /\ cbrpc = [k \in Sessions |-> "idle"]
    /\ dispatched = <<>>
    /\ cbheader = [k \in Sessions |-> NoHeader]
    /\ cbcrashed = FALSE

NoneIssued == [routeID |-> <<>>, generator |-> <<>>]

\* the deadline of a socket: set(Read|Write)Deadline has not run; it has run
\* and left the socket without a deadline; it has set the deadline to when
Unset == [called |-> "unset", when |-> 0]
NoDeadline == [called |-> "none", when |-> 0]
Deadline(when) == [called |-> "set", when |-> when]

\* no timeout option is given and no deadline is computed
TimeOff ==
    /\ readTimeout = 0
    /\ writeTimeout = 0
    /\ now = 0
    /\ ctxDeadline = 0
    /\ readDeadline = Unset
    /\ writeDeadline = Unset
    /\ nsend = 0
    /\ wres = "none"

Init ==
    InitConn /\ InitCb /\ issued = NoneIssued /\ inbound = MaxRecv /\ CodecOff /\ TimeOff

\* the same state, with a peer that sends one frame more
InitRead ==
    InitConn /\ InitCb /\ issued = NoneIssued /\ inbound = MaxRecv + 1 /\ CodecOff
        /\ TimeOff

---------------------------------------------------------------------------
(* New and the options. *)

\* withRawURL: switch u.Scheme { case "unix", "tcp": default: return ErrInvalidInput }
SchemeSupported(scheme) == scheme \in {"unix", "tcp"}

\* New(rawURL, name, id, opts...): the options of the caller are applied first,
\* withRawURL last. WithSubscription and WithSubscriptions assign to
\* c.subscriptions, which New never allocates: an assignment to an entry of a
\* nil map panics. WithMessageListener adds its listener. withRawURL returns
\* the error of url.Parse, or ErrInvalidInput for a scheme it does not support.
New(u, topics, ls) ==
    /\ phase = "new"
    /\ ~crashed
    /\ rawURL' = u
    /\ IF topics # {}
       THEN /\ crashed' = TRUE
            /\ UNCHANGED <<phase, url, newErr, msgListeners>>
       ELSE /\ UNCHANGED crashed
            /\ IF ~u.parses
               THEN /\ phase' = "failed"
                    /\ newErr' = "parse"
                    /\ UNCHANGED <<url, msgListeners>>
               ELSE IF SchemeSupported(u.scheme)
               THEN /\ phase' = "ready"
                    /\ url' = u.scheme
                    /\ msgListeners' = ls
                    /\ UNCHANGED newErr
               ELSE /\ phase' = "failed"
                    /\ newErr' = "ErrInvalidInput"
                    /\ UNCHANGED <<url, msgListeners>>
    /\ UNCHANGED <<issued, cbVars, codecVars, timeVars, inbound, rmsg, delivered, G_conn, G_count,
                   G_send, G_reader, m, subscriptions, errListeners, routeID, wire,
                   op, pc, res, rpc, dpc, dret>>

\* AddReadErrorListener(l)
AddReadErrorListener(l) ==
    /\ Alive
    /\ ops < MaxOps
    /\ l \notin Range(errListeners)
    /\ errListeners' = Append(errListeners, l)
    /\ ops' = ops + 1
    /\ UNCHANGED <<issued, cbVars, codecVars, timeVars, rawURL, newErr, inbound, rmsg, delivered,
                   G_static, G_conn, G_send, G_reader, crashed, m, subscriptions,
                   msgListeners, routeID, wire, nframes, nrecv, dialed, op, pc,
                   res, rpc, dpc, dret>>

\* AddMessageListener(l)
AddMessageListener(l) ==
    /\ Alive
    /\ ops < MaxOps
    /\ l \notin Range(msgListeners)
    /\ msgListeners' = Append(msgListeners, l)
    /\ ops' = ops + 1
    /\ UNCHANGED <<issued, cbVars, codecVars, timeVars, rawURL, newErr, inbound, rmsg, delivered,
                   G_static, G_conn, G_send, G_reader, crashed, m, subscriptions,
                   errListeners, routeID, wire, nframes, nrecv, dialed, op, pc,
                   res, rpc, dpc, dret>>

\* the CancelListenerFunc that Add returned for l is called
CancelListener(l) ==
    /\ Alive
    /\ ops < MaxOps
    /\ l \in Range(errListeners) \cup Range(msgListeners)
    /\ errListeners' = Without(errListeners, l)
    /\ msgListeners' = Without(msgListeners, l)
    /\ ops' = ops + 1
    /\ UNCHANGED <<issued, cbVars, codecVars, timeVars, rawURL, newErr, inbound, rmsg, delivered,
                   G_static, G_conn, G_send, G_reader, crashed, m, subscriptions,
                   routeID, wire, nframes, nrecv, dialed, op, pc, res, rpc, dpc,
                   dret>>

---------------------------------------------------------------------------
(* A caller starts a call. *)

Call(p, o, at) ==
    /\ Alive
    /\ ops < MaxOps
    /\ pc[p] = "idle"
    /\ ops' = ops + 1
    /\ op' = [op EXCEPT ![p] = o]
    /\ pc' = [pc EXCEPT ![p] = at]
    /\ res' = [res EXCEPT ![p] = "none"]
    /\ cdone' = [cdone EXCEPT ![p] = FALSE]
    /\ midCancel' = [midCancel EXCEPT ![p] = FALSE]
    /\ dpc' = [dpc EXCEPT ![p] = IF o = "Disconnect" THEN "wait" ELSE @]
    /\ UNCHANGED <<issued, cbVars, codecVars, timeVars, rawURL, newErr, inbound, rmsg, delivered,
                   G_static, G_conn, G_reg, G_reader, crashed, m, subscriptions,
                   routeID, wire, nframes, nrecv, dialed, frame, sent, todo, rpc,
                   dret>>

CallConnect(p) == Call(p, "Connect", "Connect.lock")
CallDisconnect(p) == Call(p, "Disconnect", "Disconnect")
CallSend(p) == Call(p, "Send", "Send.lock")
CallSubscribe(p) == Call(p, "Subscribe", "Subscribe.lock")

\* the owner of the context passed to Send or Subscribe cancels it
CancelCtx(p) ==
    /\ Alive
    /\ op[p] \in {"Send", "Subscribe"}
    /\ pc[p] # "idle"
    /\ ~cdone[p]
    /\ cdone' = [cdone EXCEPT ![p] = TRUE]
    /\ midCancel' = [midCancel EXCEPT ![p] =
                        pc[p] \in {"send.select", "send.Write"} /\ sent[p] < FrameLen]
    /\ UNCHANGED <<issued, cbVars, codecVars, timeVars, rawURL, newErr, inbound, rmsg, delivered,
                   G_static, G_conn, G_reg, G_count, G_reader, crashed, m,
                   subscriptions, routeID, wire, op, pc, res, frame, sent, todo,
                   rpc, dpc, dret>>

---------------------------------------------------------------------------
(* Disconnect, run by a caller, by a listener on the readLoop's goroutine, or *)
(* by the readLoop's deferred call.                                          *)

\* c.m.Lock(); if c.conn == nil { return nil }; c.cancel()
DisconnectLock(t) ==
    /\ Alive
    /\ dpc[t] = "wait"
    /\ MutexFree
    /\ IF DisconnectNoop
       THEN /\ dpc' = [dpc EXCEPT ![t] = "none"]
            /\ dret' = [dret EXCEPT ![t] = "ok"]
            /\ m' = Unlocked(t)
            /\ AfterDisconnect(t, "ok")
            /\ UNCHANGED <<ctxDone, crashed>>
       ELSE IF cancel = NoConn
       THEN \* calling a nil func panics
            /\ crashed' = TRUE
            /\ dpc' = [dpc EXCEPT ![t] = "panic"]
            /\ UNCHANGED <<dret, m, ctxDone, pc, res, rpc>>
       ELSE /\ m' = t
            /\ ctxDone' = [ctxDone EXCEPT ![cancel] = TRUE]
            /\ dpc' = [dpc EXCEPT ![t] = "close"]
            /\ UNCHANGED <<dret, pc, res, rpc, crashed>>
    /\ UNCHANGED <<issued, cbVars, codecVars, timeVars, rawURL, newErr, inbound, rmsg, delivered,
                   G_static, G_reg, G_count, G_send, G_reader, conn, cancel,
                   closed, subscriptions, routeID, wire, op>>

\* err := c.conn.Close(); c.conn = nil; c.cancel = nil; return err
DisconnectClose(t) ==
    /\ Alive
    /\ dpc[t] = "close"
    /\ closed' = [closed EXCEPT ![conn] = TRUE]
    /\ conn' = NoConn
    /\ cancel' = NoConn
    /\ dpc' = [dpc EXCEPT ![t] = "none"]
    /\ dret' = [dret EXCEPT ![t] = "ok"]
    /\ m' = Unlocked(t)
    /\ AfterDisconnect(t, "ok")
    /\ UNCHANGED <<issued, cbVars, codecVars, timeVars, rawURL, newErr, inbound, rmsg, delivered,
                   G_static, G_reg, G_count, G_send, G_reader, crashed, ctxDone,
                   subscriptions, routeID, wire, op>>

---------------------------------------------------------------------------
(* Connect. *)

\* c.m.Lock(); if c.conn != nil { return nil }; net.Dial; c.conn = con;
\* c.cancel = cancel; go c.readLoop(ctx); list := inbox + subscriptions
ConnectBegin(p) ==
    /\ Alive
    /\ pc[p] = "Connect.lock"
    /\ MutexFree
    /\ IF ConnectNoop
       THEN /\ Return(p, "ok")
            /\ m' = Unlocked(p)
            /\ UNCHANGED <<conn, cancel, dialed, rpc, todo>>
       ELSE \/ \* net.Dial fails
               /\ Return(p, "err")
               /\ m' = Unlocked(p)
               /\ UNCHANGED <<conn, cancel, dialed, rpc, todo>>
            \/ \* net.Dial succeeds
               /\ dialed < MaxSessions
               /\ conn' = dialed + 1
               /\ cancel' = dialed + 1
               /\ dialed' = dialed + 1
               /\ rpc' = [rpc EXCEPT ![dialed + 1] = "select"]
               /\ m' = p
               /\ \E l \in SubscribeList(subscriptions.keys) :
                      todo' = [todo EXCEPT ![p] = l]
               /\ pc' = [pc EXCEPT ![p] = "Connect.subscribe"]
               /\ UNCHANGED res
    /\ UNCHANGED <<issued, cbVars, codecVars, timeVars, rawURL, newErr, inbound, rmsg, delivered,
                   G_static, G_reg, G_reader, crashed, closed, ctxDone,
                   subscriptions, routeID, wire, ops, nframes, nrecv, op, cdone,
                   midCancel, frame, sent, dpc, dret>>

\* the loop of Connect over list: c.subscribe(ctx, topic) builds the control
\* message with the next route id and enters c.send; after the last topic
\* Connect returns nil
ConnectSubscribe(p) ==
    /\ Alive
    /\ pc[p] = "Connect.subscribe"
    /\ IF todo[p] = <<>>
       THEN /\ Return(p, "ok")
            /\ m' = Unlocked(p)
            /\ UNCHANGED <<routeID, issued, nframes, frame, sent, todo>>
       ELSE /\ routeID' = nextRouteID(routeID)
            /\ issued' = Issue("routeID", nextRouteID(routeID))
            /\ nframes' = nframes + 1
            /\ frame' = [frame EXCEPT ![p] =
                            [id |-> nframes + 1, kind |-> "sub", topic |-> Head(todo[p]),
                             route |-> nextRouteID(routeID), sock |-> conn]]
            /\ sent' = [sent EXCEPT ![p] = 0]
            /\ todo' = [todo EXCEPT ![p] = Tail(@)]
            /\ pc' = [pc EXCEPT ![p] = "send.select"]
            /\ UNCHANGED <<res, m>>
    /\ UNCHANGED <<cbVars, codecVars, timeVars, rawURL, newErr, inbound, rmsg, delivered,
                   G_static, G_conn, G_reg, G_reader, crashed,
                   subscriptions, wire, ops, nrecv, dialed, op, cdone, midCancel,
                   rpc, dpc, dret>>

---------------------------------------------------------------------------
(* Send and Subscribe. *)

\* a send that marshals the message before it looks at c.conn
SendCheck_marshalFirst(t) ==
    IF t = "" THEN "invalid" ELSE IF conn = NoConn THEN "state" ELSE "go"

\* c.send: if c.conn == nil { return ErrInvalidState }; b, err := msg.marshal();
\* if err != nil { return err } (marshal refuses an empty topic)
SendCheck(t) ==
    IF conn = NoConn THEN "state" ELSE IF t = "" THEN "invalid" ELSE "go"

\* Send: c.m.Lock(); defer c.m.Unlock(); return c.send(ctx, msg)
SendBegin(p) ==
    /\ Alive
    /\ pc[p] = "Send.lock"
    /\ MutexFree
    /\ \E t \in SendTopics :
        IF SendCheck(t) # "go"
        THEN /\ Return(p, SendCheck(t))
             /\ m' = Unlocked(p)
             /\ UNCHANGED <<nframes, frame, sent>>
        ELSE /\ m' = p
             /\ nframes' = nframes + 1
             /\ frame' = [frame EXCEPT ![p] =
                             [id |-> nframes + 1, kind |-> "msg", topic |-> t,
                              route |-> 0, sock |-> conn]]
             /\ sent' = [sent EXCEPT ![p] = 0]
             /\ pc' = [pc EXCEPT ![p] = "send.select"]
             /\ UNCHANGED res
    /\ UNCHANGED <<issued, cbVars, codecVars, timeVars, rawURL, newErr, inbound, rmsg, delivered,
                   G_static, G_conn, G_reg, G_reader, crashed, subscriptions,
                   routeID, wire, ops, nrecv, dialed, op, cdone, midCancel, todo,
                   rpc, dpc, dret>>

\* Subscribe: c.m.Lock(); c.subscriptions[expression] = struct{}{} (a panic
\* when the map is nil); c.subscribe(ctx, expression)
SubscribeBegin(p) ==
    /\ Alive
    /\ pc[p] = "Subscribe.lock"
    /\ MutexFree
    /\ \E t \in Topics :
        IF subscriptions.nil
        THEN /\ crashed' = TRUE
             /\ pc' = [pc EXCEPT ![p] = "panic"]
             /\ UNCHANGED <<subscriptions, routeID, issued, nframes, frame, sent,
                            res, m>>
        ELSE /\ subscriptions' = [subscriptions EXCEPT !.keys = @ \cup {t}]
             /\ routeID' = nextRouteID(routeID)
             /\ issued' = Issue("routeID", nextRouteID(routeID))
             /\ UNCHANGED crashed
             /\ IF conn = NoConn
                THEN /\ Return(p, "state")
                     /\ m' = Unlocked(p)
                     /\ UNCHANGED <<nframes, frame, sent>>
                ELSE /\ m' = p
                     /\ nframes' = nframes + 1
                     /\ frame' = [frame EXCEPT ![p] =
                                     [id |-> nframes + 1, kind |-> "sub", topic |-> t,
                                      route |-> nextRouteID(routeID), sock |-> conn]]
                     /\ sent' = [sent EXCEPT ![p] = 0]
                     /\ pc' = [pc EXCEPT ![p] = "send.select"]
                     /\ UNCHANGED res
    /\ UNCHANGED <<cbVars, codecVars, timeVars, rawURL, newErr, inbound, rmsg, delivered,
                   G_static, G_conn, G_reg, G_reader, wire, ops, nrecv,
                   dialed, op, cdone, midCancel, todo, rpc, dpc, dret>>

\* c.send, the head of the loop: select { case <-ctx.Done(): return ctx.Err()
\* default: c.setWriteDeadline(ctx) ... }; setWriteDeadline returns
\* ErrInvalidState when c.conn is nil and sets no deadline for a context that
\* has none
SendSelect(p) ==
    /\ Alive
    /\ pc[p] = "send.select"
    /\ IF SendCtxDone(p)
       THEN SendReturn(p, "cancelled")
       ELSE IF conn = NoConn
       THEN SendReturn(p, "state")
       ELSE /\ pc' = [pc EXCEPT ![p] = "send.Write"]
            /\ UNCHANGED <<res, m, G_conn>>
    /\ UNCHANGED <<issued, cbVars, codecVars, timeVars, rawURL, newErr, inbound, rmsg, delivered,
                   G_static, G_reg, G_count, G_send, G_reader, crashed,
                   subscriptions, routeID, wire, op, rpc, dpc, dret>>

\* c.send: n, err := c.conn.Write(b[sent:]) returns. The socket took n >= 1
\* of the remaining units, or the write failed.
SendWrite(p) ==
    /\ Alive
    /\ pc[p] = "send.Write"
    /\ conn # NoConn
    /\ \/ \E n \in 1..(FrameLen - sent[p]) :
            /\ wire' = [wire EXCEPT ![conn] = @ \o Units(frame[p], sent[p], n)]
            /\ sent' = [sent EXCEPT ![p] = @ + n]
            /\ IF sent[p] + n = FrameLen
               THEN SendReturn(p, "ok")
               ELSE /\ pc' = [pc EXCEPT ![p] = "send.select"]
                    /\ UNCHANGED <<res, m, G_conn>>
       \/ /\ SendReturn(p, "err")
          /\ UNCHANGED <<wire, sent>>
    /\ UNCHANGED <<issued, cbVars, codecVars, timeVars, rawURL, newErr, inbound, rmsg, delivered,
                   G_static, G_reg, G_count, G_reader, crashed,
                   subscriptions, routeID, op, cdone, midCancel, frame, todo, rpc,
                   dpc, dret>>

---------------------------------------------------------------------------
(* readLoop of session k. *)

\* the deferred c.Disconnect() of readLoop is called
Deferred(k) ==
    /\ rpc' = [rpc EXCEPT ![k] = "defer"]
    /\ dpc' = [dpc EXCEPT ![RName(k)] = "wait"]

\* the read-path error e: c.errListeners.Visit(... listener.OnReadError(err))
ReadError(k, e) ==
    /\ rerr' = [rerr EXCEPT ![k] = e]
    /\ errReg' = [errReg EXCEPT ![k] = Range(errListeners)]
    /\ rvisit' = [rvisit EXCEPT ![k] = OnReadError(errListeners)]
    /\ rpc' = [rpc EXCEPT ![k] = "visitErr"]

\* select { case <-ctx.Done(): return; default: ... }
ReaderSelect(k) ==
    /\ Alive
    /\ rpc[k] = "select"
    /\ IF ctxDone[k]
       THEN Deferred(k)
       ELSE /\ rpc' = [rpc EXCEPT ![k] = "deadline"]
            /\ UNCHANGED dpc
    /\ UNCHANGED <<issued, cbVars, codecVars, timeVars, rawURL, newErr, inbound, rmsg, delivered,
                   G_static, G_conn, G_reg, G_count, G_send, G_reader, crashed, m,
                   subscriptions, routeID, wire, op, pc, res, dret>>

\* c.setReadDeadline(ctx): ErrInvalidState when c.conn is nil (read without the
\* mutex); the reader's context has no deadline, so no deadline is set
ReaderSetReadDeadline(k) ==
    /\ Alive
    /\ rpc[k] = "deadline"
    /\ IF conn = NoConn
       THEN ReadError(k, "state")
       ELSE /\ rpc' = [rpc EXCEPT ![k] = "unmarshal"]
            /\ UNCHANGED <<rerr, errReg, rvisit>>
    /\ UNCHANGED <<issued, cbVars, codecVars, timeVars, rawURL, newErr, inbound, rmsg, delivered,
                   G_static, G_conn, G_reg, G_count, G_send, crashed, m,
                   subscriptions, routeID, wire, op, pc, res, rsock, notified, dpc,
                   dret>>

\* unmarshal(c.conn): c.conn is read without the mutex; reading from a nil
\* io.Reader panics
ReaderUnmarshal(k) ==
    /\ Alive
    /\ rpc[k] = "unmarshal"
    /\ IF conn = NoConn
       THEN /\ crashed' = TRUE
            /\ UNCHANGED <<rpc, rsock>>
       ELSE /\ rsock' = [rsock EXCEPT ![k] = conn]
            /\ rpc' = [rpc EXCEPT ![k] = "reading"]
            /\ UNCHANGED crashed
    /\ UNCHANGED <<issued, cbVars, codecVars, timeVars, rawURL, newErr, inbound, rmsg, delivered,
                   G_static, G_conn, G_reg, G_count, G_send, m, subscriptions,
                   routeID, wire, op, pc, res, rerr, rvisit, notified, errReg, dpc,
                   dret>>

\* unmarshal returns a message: c.msgListeners.Visit(...)
ReaderMessage(k) ==
    /\ Alive
    /\ rpc[k] = "reading"
    /\ ~closed[rsock[k]]
    /\ nrecv < inbound
    /\ nrecv' = nrecv + 1
    /\ rmsg' = [rmsg EXCEPT ![k] = nrecv + 1]
    /\ rvisit' = [rvisit EXCEPT ![k] = OnMessage(msgListeners)]
    /\ rpc' = [rpc EXCEPT ![k] = "visitMsg"]
    /\ UNCHANGED <<issued, cbVars, codecVars, timeVars, rawURL, newErr, inbound, delivered,
                   G_static, G_conn, G_reg, G_send, crashed, m, subscriptions,
                   routeID, wire, ops, nframes, dialed, op, pc, res, rsock, rerr,
                   notified, errReg, dpc, dret>>

\* unmarshal returns an error: the peer closed the stream or sent a bad frame
ReaderIOError(k) ==
    /\ Alive
    /\ rpc[k] = "reading"
    /\ ~closed[rsock[k]]
    /\ ReadError(k, "io")
    /\ UNCHANGED <<issued, cbVars, codecVars, timeVars, rawURL, newErr, inbound, rmsg, delivered,
                   G_static, G_conn, G_reg, G_count, G_send, crashed, m,
                   subscriptions, routeID, wire, op, pc, res, rsock, notified, dpc,
                   dret>>

\* unmarshal returns an error: the socket it reads from was closed by Disconnect
ReaderClosedError(k) ==
    /\ Alive
    /\ rpc[k] = "reading"
    /\ closed[rsock[k]]
    /\ ReadError(k, "closed")
    /\ UNCHANGED <<issued, cbVars, codecVars, timeVars, rawURL, newErr, inbound, rmsg, delivered,
                   G_static, G_conn, G_reg, G_count, G_send, crashed, m,
                   subscriptions, routeID, wire, op, pc, res, rsock, notified, dpc,
                   dret>>

\* Visit calls the next listener, which may call c.Disconnect(); after the last
\* listener readLoop returns (read error) or loops (message)
ReaderVisit(k) ==
    /\ Alive
    /\ rpc[k] \in {"visitErr", "visitMsg"}
    /\ dpc[RName(k)] = "none"
    /\ IF rvisit[k] = <<>>
       THEN /\ IF rpc[k] = "visitErr"
               THEN Deferred(k)
               ELSE /\ rpc' = [rpc EXCEPT ![k] = "select"]
                    /\ UNCHANGED dpc
            /\ UNCHANGED <<rvisit, notified, delivered>>
       ELSE /\ rvisit' = [rvisit EXCEPT ![k] = Tail(@)]
            /\ delivered' = IF rpc[k] = "visitMsg"
                            THEN Append(delivered, <<Head(rvisit[k]), rmsg[k]>>)
                            ELSE delivered
            /\ notified' = IF rpc[k] = "visitErr"
                           THEN notified \cup {<<k, Head(rvisit[k]), rerr[k]>>}
                           ELSE notified
            /\ dpc' = [dpc EXCEPT ![RName(k)] =
                          IF Head(rvisit[k]) \in DisconnectingListeners
                          THEN "wait" ELSE @]
            /\ UNCHANGED rpc
    /\ UNCHANGED <<issued, cbVars, codecVars, timeVars, rawURL, newErr, inbound, rmsg,
                   G_static, G_conn, G_reg, G_count, G_send, crashed, m,
                   subscriptions, routeID, wire, op, pc, res, rsock, rerr, errReg,
                   dret>>

---------------------------------------------------------------------------
(* The callback revision: Connect(inboxHandler), AddListener, Send,        *)
(* SendRequest, Disconnect and readLoop with its ReadState machine.         *)

\* the units of a frame that are its encoded header; the rest is the payload
HeaderUnits == FrameLen - 1

\* generator.getNextSubscriptionID(): atomic.AddUint32(&s.counter, 1)
getNextSubscriptionID(c) == (c + 1) % RouteIdMod

\* c.inboxName: fmt.Sprintf("%s.INBOX.%d", appName, os.Getpid())
inboxName == "app.INBOX.1"

\* a makeEncodedHeader that leaves the flags and the reply topic empty
makeEncodedHeader_plain(f, SequenceNumber, replyTopic, isRequest) ==
    f @@ [seq |-> SequenceNumber, flags |-> 0, replyTopic |-> ""]

\* makeEncodedHeader(payload, topic, replyTopic, isRequest): the header of
\* frame f gets the sequence number just drawn, Flags 0, or 0x01 for a request,
\* and the reply topic
makeEncodedHeader(f, SequenceNumber, replyTopic, isRequest) ==
    f @@ [seq |-> SequenceNumber,
          flags |-> IF isRequest THEN flags_REQUEST ELSE 0,
          replyTopic |-> replyTopic]

\* a caller's call returns r
CbReturn(p, r) == /\ cbpc' = [cbpc EXCEPT ![p] = "idle"]
                  /\ cbres' = [cbres EXCEPT ![p] = r]

\* the context sendAll of caller p selects on: the one Connect made for the
\* session inside Connect, the caller's own otherwise
CbCtxDone(p) ==
    IF cbop[p] = "Connect" THEN cbctxDone[cbframe[p].sock] ELSE cbcdone[p]

\* sendWithHeader of caller p returns r.
\* Send, SendRequest: the caller gets r.
\* AddListener: c.messageHandlers[req.RouteID] = callback after a success.
\* Connect: the result of AddListener is dropped; go c.readLoop(ctx); return nil.
CbSendReturn(p, r) ==
    /\ messageHandlers' = IF cbop[p] \in {"Connect", "AddListener"} /\ r = "ok"
                          THEN messageHandlers \cup {cbframe[p].route}
                          ELSE messageHandlers
    /\ IF cbop[p] = "Connect"
       THEN /\ CbReturn(p, "ok")
            /\ cbm' = "free"
            /\ cbrpc' = [cbrpc EXCEPT ![cbframe[p].sock] = "select"]
       ELSE /\ CbReturn(p, r)
            /\ UNCHANGED <<cbm, cbrpc>>

CbCall(p, o) ==
    /\ ~cbcrashed
    /\ cbops < MaxOps
    /\ cbpc[p] = "idle"
    /\ cbops' = cbops + 1
    /\ cbop' = [cbop EXCEPT ![p] = o]
    /\ cbpc' = [cbpc EXCEPT ![p] = "begin"]
    /\ cbres' = [cbres EXCEPT ![p] = "none"]
    /\ cbcdone' = [cbcdone EXCEPT ![p] = FALSE]
    /\ UNCHANGED <<issued, connVars, codecVars, timeVars, con, cbcancel, cbm, counter, messageHandlers, state,
                   cbdialed, cbclosed, cbctxDone, cbwire, cbnframes, cbnrecv,
                   cbframe, cbsock, cbsent, cbrpc, dispatched, cbheader, cbcrashed>>

CbCallConnect(p) == CbCall(p, "Connect")
CbCallDisconnect(p) == CbCall(p, "Disconnect")
CbCallSend(p) == CbCall(p, "Send")
CbCallSendRequest(p) == CbCall(p, "SendRequest")
CbCallAddListener(p) == CbCall(p, "AddListener")

\* the owner of the context passed to Send, SendRequest or AddListener cancels it
CbCancelCtx(p) ==
    /\ ~cbcrashed
    /\ cbop[p] \in {"Send", "SendRequest", "AddListener"}
    /\ cbpc[p] # "idle"
    /\ ~cbcdone[p]
    /\ cbcdone' = [cbcdone EXCEPT ![p] = TRUE]
    /\ UNCHANGED <<issued, connVars, codecVars, timeVars, con, cbcancel, cbm, counter, messageHandlers, state,
                   cbdialed, cbclosed, cbctxDone, cbwire, cbops, cbnframes,
                   cbnrecv, cbop, cbpc, cbres, cbframe, cbsock, cbsent, cbrpc,
                   dispatched, cbheader, cbcrashed>>

\* Connect(inboxHandler): c.m.Lock(); if c.con != nil { return nil }; net.Dial;
\* c.con = con; c.cancel = cancel; with a handler, AddListener takes a route id,
\* Send encodes the header with the next sequence number and sendWithHeader
\* starts on the header; without one, go c.readLoop(ctx); return nil
CbConnect(p) ==
    /\ ~cbcrashed
    /\ cbop[p] = "Connect"
    /\ cbpc[p] = "begin"
    /\ cbm = "free"
    /\ IF con # NoConn
       THEN /\ CbReturn(p, "ok")
            /\ UNCHANGED <<con, cbcancel, cbm, counter, issued, cbdialed,
                           cbnframes, cbframe, cbsock, cbsent, cbrpc>>
       ELSE \/ \* net.Dial fails
               /\ CbReturn(p, "err")
               /\ UNCHANGED <<con, cbcancel, cbm, counter, issued, cbdialed,
                              cbnframes, cbframe, cbsock, cbsent, cbrpc>>
            \/ \* net.Dial succeeds
               /\ cbdialed < MaxSessions
               /\ con' = cbdialed + 1
               /\ cbcancel' = cbdialed + 1
               /\ cbdialed' = cbdialed + 1
               /\ \E inboxHandler \in BOOLEAN :
                     IF inboxHandler
                     THEN /\ counter' = getNextSubscriptionID(getNextSubscriptionID(counter))
                          /\ issued' = [issued EXCEPT !.generator =
                                @ \o <<getNextSubscriptionID(counter),
                                       getNextSubscriptionID(getNextSubscriptionID(counter))>>]
                          /\ cbnframes' = cbnframes + 1
                          /\ cbframe' = [cbframe EXCEPT ![p] =
                                makeEncodedHeader(
                                    [id |-> cbnframes + 1, kind |-> "sub",
                                     topic |-> "_RTROUTED.INBOX.SUBSCRIBE",
                                     route |-> getNextSubscriptionID(counter),
                                     sock |-> cbdialed + 1],
                                    getNextSubscriptionID(getNextSubscriptionID(counter)),
                                    "", FALSE)]
                          /\ cbsock' = [cbsock EXCEPT ![p] = cbdialed + 1]
                          /\ cbsent' = [cbsent EXCEPT ![p] = 0]
                          /\ cbm' = p
                          /\ cbpc' = [cbpc EXCEPT ![p] = "sendAll.select"]
                          /\ UNCHANGED <<cbres, cbrpc>>
                     ELSE /\ cbrpc' = [cbrpc EXCEPT ![cbdialed + 1] = "select"]
                          /\ CbReturn(p, "ok")
                          /\ UNCHANGED <<cbm, counter, issued, cbnframes, cbframe,
                                         cbsock, cbsent>>
    /\ UNCHANGED <<connVars, codecVars, timeVars, messageHandlers, state, cbclosed, cbctxDone, cbwire,
                   cbops, cbnrecv, cbop, cbcdone, dispatched, cbheader, cbcrashed>>

\* Disconnect: c.m.Lock(); if c.con == nil { return nil }; c.cancel();
\* c.con.Close(); c.con = nil; c.cancel = nil
CbDisconnect(p) ==
    /\ ~cbcrashed
    /\ cbop[p] = "Disconnect"
    /\ cbpc[p] = "begin"
    /\ cbm = "free"
    /\ IF con = NoConn
       THEN UNCHANGED <<con, cbcancel, cbclosed, cbctxDone>>
       ELSE /\ cbctxDone' = [cbctxDone EXCEPT ![cbcancel] = TRUE]
            /\ cbclosed' = [cbclosed EXCEPT ![con] = TRUE]
            /\ con' = NoConn
            /\ cbcancel' = NoConn
    /\ CbReturn(p, "ok")
    /\ UNCHANGED <<issued, connVars, codecVars, timeVars, cbm, counter, messageHandlers, state, cbdialed,
                   cbwire, cbops, cbnframes, cbnrecv, cbop, cbcdone, cbframe,
                   cbsock, cbsent, cbrpc, dispatched, cbheader, cbcrashed>>

\* Send, SendRequest and AddListener up to the first sendAll: AddListener takes
\* a route id; makeEncodedHeader takes the next sequence number and encodes the
\* header; sendWithHeader: if c.con == nil { return ErrInvalidState };
\* sendAll(ctx, c.con, header). No mutex is taken.
CbSendBegin(p) ==
    /\ ~cbcrashed
    /\ cbop[p] \in {"Send", "SendRequest", "AddListener"}
    /\ cbpc[p] = "begin"
    /\ LET route == IF cbop[p] = "AddListener" THEN getNextSubscriptionID(counter) ELSE 0
           base == IF cbop[p] = "AddListener" THEN getNextSubscriptionID(counter) ELSE counter
       IN /\ counter' = getNextSubscriptionID(base)
          /\ issued' = [issued EXCEPT !.generator =
                IF cbop[p] = "AddListener"
                THEN @ \o <<route, getNextSubscriptionID(base)>>
                ELSE Append(@, getNextSubscriptionID(base))]
          /\ IF con = NoConn
             THEN /\ CbReturn(p, "state")
                  /\ UNCHANGED <<cbnframes, cbframe, cbsock, cbsent>>
             ELSE /\ cbnframes' = cbnframes + 1
                  /\ cbframe' = [cbframe EXCEPT ![p] =
                        makeEncodedHeader(
                            [id |-> cbnframes + 1,
                             kind |-> IF cbop[p] = "AddListener" THEN "sub"
                                      ELSE IF cbop[p] = "SendRequest" THEN "req" ELSE "msg",
                             topic |-> IF cbop[p] = "AddListener"
                                       THEN "_RTROUTED.INBOX.SUBSCRIBE" ELSE "A.B.C",
                             route |-> route, sock |-> con],
                            getNextSubscriptionID(base),
                            IF cbop[p] = "SendRequest" THEN inboxName ELSE "",
                            cbop[p] = "SendRequest")]
                  /\ cbsock' = [cbsock EXCEPT ![p] = con]
                  /\ cbsent' = [cbsent EXCEPT ![p] = 0]
                  /\ cbpc' = [cbpc EXCEPT ![p] = "sendAll.select"]
                  /\ UNCHANGED cbres
    /\ UNCHANGED <<connVars, codecVars, timeVars, con, cbcancel, cbm, messageHandlers, state, cbdialed,
                   cbclosed, cbctxDone, cbwire, cbops, cbnrecv, cbop, cbcdone,
                   cbrpc, dispatched, cbheader, cbcrashed>>

\* sendAll, the head of the loop: select { case <-ctx.Done(): return ctx.Err()
\* default: ... }
CbSendAllSelect(p) ==
    /\ ~cbcrashed
    /\ cbpc[p] = "sendAll.select"
    /\ IF CbCtxDone(p)
       THEN CbSendReturn(p, "cancelled")
       ELSE /\ cbpc' = [cbpc EXCEPT ![p] = "sendAll.Write"]
            /\ UNCHANGED <<cbres, cbm, cbrpc, messageHandlers>>
    /\ UNCHANGED <<issued, connVars, codecVars, timeVars, con, cbcancel, counter, state, cbdialed, cbclosed,
                   cbctxDone, cbwire, cbops, cbnframes, cbnrecv, cbop, cbcdone,
                   cbframe, cbsock, cbsent, dispatched, cbheader, cbcrashed>>

\* sendAll: n, err := conn.Write(buff[sent:]) returns, buff being the header
\* until HeaderUnits units are out and the payload after. A nil conn panics; a
\* closed socket fails; else the socket takes n >= 1 of the remaining units of
\* buff, or the write fails. When the header is out, sendWithHeader calls
\* sendAll(ctx, c.con, payload), reading c.con again; when the payload is out
\* it returns nil, to AddListener if that was the caller.
CbSendAllWrite(p) ==
    /\ ~cbcrashed
    /\ cbpc[p] = "sendAll.Write"
    /\ IF cbsock[p] = NoConn
       THEN /\ cbcrashed' = TRUE
            /\ UNCHANGED <<cbwire, cbsent, cbsock, cbpc, cbres, cbm, cbrpc,
                           messageHandlers>>
       ELSE /\ UNCHANGED cbcrashed
            /\ \/ /\ ~cbclosed[cbsock[p]]
                  /\ LET total == IF cbsent[p] < HeaderUnits THEN HeaderUnits ELSE FrameLen
                     IN \E n \in 1..(total - cbsent[p]) :
                          /\ cbwire' = [cbwire EXCEPT ![cbsock[p]] =
                                           @ \o Units(cbframe[p], cbsent[p], n)]
                          /\ cbsent' = [cbsent EXCEPT ![p] = @ + n]
                          /\ IF cbsent[p] + n = FrameLen /\ cbop[p] = "AddListener"
                             THEN /\ cbpc' = [cbpc EXCEPT ![p] = "register"]
                                  /\ UNCHANGED <<cbsock, cbres, cbm, cbrpc,
                                                 messageHandlers>>
                             ELSE IF cbsent[p] + n = FrameLen
                             THEN /\ CbSendReturn(p, "ok")
                                  /\ UNCHANGED cbsock
                             ELSE /\ cbpc' = [cbpc EXCEPT ![p] = "sendAll.select"]
                                  /\ cbsock' = [cbsock EXCEPT ![p] =
                                                   IF cbsent[p] + n = HeaderUnits
                                                   THEN con ELSE @]
                                  /\ UNCHANGED <<cbres, cbm, cbrpc, messageHandlers>>
               \/ /\ CbSendReturn(p, "err")
                  /\ UNCHANGED <<cbwire, cbsent, cbsock>>
    /\ UNCHANGED <<issued, connVars, codecVars, timeVars, con, cbcancel, counter, state, cbdialed, cbclosed,
                   cbctxDone, cbops, cbnframes, cbnrecv, cbop, cbcdone, cbframe,
                   dispatched, cbheader>>

\* AddListener after c.Send returned nil: c.messageHandlers[req.RouteID] =
\* callback; return nil. No mutex is held.
CbRegister(p) ==
    /\ ~cbcrashed
    /\ cbpc[p] = "register"
    /\ CbSendReturn(p, "ok")
    /\ UNCHANGED <<issued, connVars, codecVars, timeVars, con, cbcancel, counter, state, cbdialed, cbclosed,
                   cbctxDone, cbwire, cbops, cbnframes, cbnrecv, cbop, cbcdone,
                   cbframe, cbsock, cbsent, dispatched, cbheader, cbcrashed>>

\* readLoop: select { case <-ctx.Done(): return; default: switch c.state ... }
CbReaderSelect(k) ==
    /\ ~cbcrashed
    /\ cbrpc[k] = "select"
    /\ cbrpc' = [cbrpc EXCEPT ![k] = IF cbctxDone[k] THEN "exited" ELSE "readUntil"]
    /\ UNCHANGED <<issued, connVars, codecVars, timeVars, con, cbcancel, cbm, counter, messageHandlers, state,
                   cbdialed, cbclosed, cbctxDone, cbwire, cbops, cbnframes,
                   cbnrecv, cbop, cbpc, cbres, cbcdone, cbframe, cbsock, cbsent,
                   dispatched, cbheader, cbcrashed>>

\* the values of header.ControlData the peer puts into the frames it sends:
\* the first route id a connection hands out, and one it never hands out
InboundControlData == {getNextSubscriptionID(0), 0}

\* the route ids of the subscribe messages that AddListener calls have
\* written to a socket in full: the peer may send frames for them
ListenerRoutes ==
    {cbframe[p].route :
        p \in {q \in Callers : /\ cbop[q] = "AddListener"
                               /\ cbsent[q] = FrameLen
                               /\ \/ cbpc[q] = "register"
                                  \/ cbpc[q] = "idle" /\ cbres[q] = "ok"}}

\* the ReadState after the buffer of ReadState s was read and decoded
NextReadState(s) ==
    IF s = "ReadHeaderPreamble" THEN "ReadHeader"
    ELSE IF s = "ReadHeader" THEN "ReadPayload"
    ELSE "ReadHeaderPreamble"

\* readLoop k reaches header.HeaderLength or header.PayloadLength with the nil
\* header it started with: c.state is a field of the Connection and is where
\* the readLoop before left it
NilHeader(k) == state # "ReadHeaderPreamble" /\ ~cbheader[k].set

\* readLoop, one case of the switch: the buffer is sized from the header (a nil
\* header panics); c.readUntil reads the buffer of c.state
\* from c.con (a nil c.con panics; a closed socket, a peer that hung up and a
\* buffer that does not decode make readLoop return); the state advances, and
\* in ReadStateReadPayload the handler registered under the header's
\* ControlData, if there is one, is called; c.messageHandlers is left as it
\* is, and a frame with no handler goes to nobody
CbReaderRead(k) ==
    /\ ~cbcrashed
    /\ cbrpc[k] = "readUntil"
    /\ IF NilHeader(k) \/ con = NoConn
       THEN /\ cbcrashed' = TRUE
            /\ UNCHANGED <<cbrpc, state, cbnrecv, dispatched, cbheader>>
       ELSE /\ UNCHANGED cbcrashed
            /\ \/ /\ cbrpc' = [cbrpc EXCEPT ![k] = "exited"]
                  /\ UNCHANGED <<state, cbnrecv, dispatched, cbheader>>
               \/ /\ ~cbclosed[con]
                  /\ cbnrecv < 3 * (MaxRecv + 1)
                  /\ cbnrecv' = cbnrecv + 1
                  /\ state' = NextReadState(state)
                  /\ cbrpc' = [cbrpc EXCEPT ![k] = "select"]
                  /\ cbheader' = IF state = "ReadHeaderPreamble"
                                 THEN [cbheader EXCEPT ![k] = NewHeader(Len(dispatched))]
                                 ELSE cbheader
                  /\ IF state = "ReadPayload"
                     THEN \E ControlData \in InboundControlData \cup ListenerRoutes :
                             dispatched' = Append(dispatched,
                                 [ControlData |-> ControlData,
                                  to |-> IF ControlData \in messageHandlers
                                         THEN "handler" ELSE "nobody",
                                  reader |-> k,
                                  header |-> cbheader[k].frame])
                     ELSE UNCHANGED dispatched
    /\ UNCHANGED <<issued, connVars, codecVars, timeVars, con, cbcancel, cbm, counter, messageHandlers,
                   cbdialed, cbclosed, cbctxDone, cbwire, cbops, cbnframes, cbop,
                   cbpc, cbres, cbcdone, cbframe, cbsock, cbsent>>

---------------------------------------------------------------------------
(* The specifications. *)

Next ==
    \/ \E s \in Schemes, ts \in SUBSET Topics : New(URL(s), ts, <<>>)
    \/ \E l \in ErrListenerIds : AddReadErrorListener(l)
    \/ \E l \in MsgListenerIds : AddMessageListener(l)
    \/ \E l \in ErrListenerIds \cup MsgListenerIds : CancelListener(l)
    \/ \E p \in Callers : CallConnect(p)
    \/ \E p \in Callers : CallDisconnect(p)
    \/ \E p \in Callers : CallSend(p)
    \/ \E p \in Callers : CallSubscribe(p)
    \/ \E p \in Callers : CancelCtx(p)
    \/ \E t \in Threads : DisconnectLock(t)
    \/ \E t \in Threads : DisconnectClose(t)
    \/ \E p \in Callers : ConnectBegin(p)
    \/ \E p \in Callers : ConnectSubscribe(p)
    \/ \E p \in Callers : SendBegin(p)
    \/ \E p \in Callers : SubscribeBegin(p)
    \/ \E p \in Callers : SendSelect(p)
    \/ \E p \in Callers : SendWrite(p)
    \/ \E k \in Sessions : ReaderSelect(k)
    \/ \E k \in Sessions : ReaderSetReadDeadline(k)
    \/ \E k \in Sessions : ReaderUnmarshal(k)
    \/ \E k \in Sessions : ReaderMessage(k)
    \/ \E k \in Sessions : ReaderIOError(k)
    \/ \E k \in Sessions : ReaderClosedError(k)
    \/ \E k \in Sessions : ReaderVisit(k)

Spec == Init /\ [][Next]_vars

\* the steps the program takes by itself once a call is made or a goroutine
\* runs: a runnable goroutine is scheduled, a Lock on a free mutex returns, a
\* Write returns, a Read on a closed socket returns. That a caller makes a call,
\* that a context is cancelled and that the peer sends or hangs up are not
\* among them.
Internal ==
    \/ \E t \in Threads : DisconnectLock(t) \/ DisconnectClose(t)
    \/ \E p \in Callers : \/ ConnectBegin(p) \/ ConnectSubscribe(p)
                          \/ SendBegin(p) \/ SubscribeBegin(p)
                          \/ SendSelect(p) \/ SendWrite(p)
    \/ \E k \in Sessions : \/ ReaderSelect(k) \/ ReaderSetReadDeadline(k)
                           \/ ReaderUnmarshal(k) \/ ReaderClosedError(k)
                           \/ ReaderVisit(k)

LiveSpec == Init /\ [][Next]_vars /\ WF_vars(Internal)

\* the same steps but for the return of c.conn.Write: a Write on a socket
\* without a deadline returns only when the peer takes the bytes, which it
\* need not do
InternalButWrite ==
    \/ \E t \in Threads : DisconnectLock(t) \/ DisconnectClose(t)
    \/ \E p \in Callers : \/ ConnectBegin(p) \/ ConnectSubscribe(p)
                          \/ SendBegin(p) \/ SubscribeBegin(p)
                          \/ SendSelect(p)
    \/ \E k \in Sessions : \/ ReaderSelect(k) \/ ReaderSetReadDeadline(k)
                           \/ ReaderUnmarshal(k) \/ ReaderClosedError(k)
                           \/ ReaderVisit(k)

StalledSpec == Init /\ [][Next]_vars /\ WF_vars(InternalButWrite)

\* New with every kind of URL and with listener options, then Connect and
\* Disconnect in any order, and the readLoop goroutines they start
NextRead ==
    \/ \E u \in RawURLs, ts \in SUBSET Topics, ls \in OptionListeners :
          New(u, ts, ls)
    \/ \E p \in Callers : CallConnect(p)
    \/ \E p \in Callers : CallDisconnect(p)
    \/ \E t \in Threads : DisconnectLock(t)
    \/ \E t \in Threads : DisconnectClose(t)
    \/ \E p \in Callers : ConnectBegin(p)
    \/ \E p \in Callers : ConnectSubscribe(p)
    \/ \E p \in Callers : SendSelect(p)
    \/ \E p \in Callers : SendWrite(p)
    \/ \E k \in Sessions : ReaderSelect(k)
    \/ \E k \in Sessions : ReaderSetReadDeadline(k)
    \/ \E k \in Sessions : ReaderUnmarshal(k)
    \/ \E k \in Sessions : ReaderMessage(k)
    \/ \E k \in Sessions : ReaderIOError(k)
    \/ \E k \in Sessions : ReaderClosedError(k)
    \/ \E k \in Sessions : ReaderVisit(k)

SpecRead == InitRead /\ [][NextRead]_vars

\* c.nextRouteID() is called once more (by a subscribe of Connect or of
\* Subscribe); the run ends one call after every value was handed out
AllocateRouteID ==
    /\ Len(issued.routeID) <= RouteIdMod
    /\ routeID' = nextRouteID(routeID)
    /\ issued' = Issue("routeID", nextRouteID(routeID))
    /\ UNCHANGED <<cbVars, codecVars, timeVars, rawURL, newErr, inbound, rmsg, delivered,
                   G_static, G_conn, G_reg, G_count, G_send, G_reader,
                   crashed, m, subscriptions, wire, op, pc, res, rpc, dpc, dret>>

\* c.generator.getNextSubscriptionID() is called once more (by AddListener or
\* by makeEncodedHeader)
AllocateSubscriptionID ==
    /\ Len(issued.generator) <= RouteIdMod
    /\ counter' = getNextSubscriptionID(counter)
    /\ issued' = Issue("generator", getNextSubscriptionID(counter))
    /\ UNCHANGED <<connVars, codecVars, timeVars, con, cbcancel, cbm, messageHandlers, state, cbdialed,
                   cbclosed, cbctxDone, cbwire, cbops, cbnframes, cbnrecv, cbop,
                   cbpc, cbres, cbcdone, cbframe, cbsock, cbsent, cbrpc, dispatched, cbheader,
                   cbcrashed>>

NextRoute == AllocateRouteID \/ AllocateSubscriptionID

SpecRoute == Init /\ [][NextRoute]_vars

\* one Message, from any of Inputs, goes through a codec
InitCodec ==
    /\ InitConn /\ InitCb /\ issued = NoneIssued /\ inbound = MaxRecv /\ TimeOff
    /\ cpc = "input"
    /\ input \in Inputs
    /\ encoded = NothingEncoded
    /\ reads = <<>>
    /\ decoded = NothingDecoded
    /\ heard = <<>>

NextCodec ==
    \/ Marshal
    \/ Encode
    \/ \E cuts \in (IF Len(encoded.b) <= MaxSplitLen
                    THEN CutSets(Len(encoded.b) - 1, MaxCuts) ELSE {{}}) :
          Deliver(cuts)
    \/ Unmarshal
    \/ ReadHeaderPreamble
    \/ Decode

SpecCodec == InitCodec /\ [][NextCodec]_vars

\* a mark and a version the decoders refuse, and a header length that is
\* neither the one without timestamps nor the one with them
OddDelta == 7
\* the cuts made in a frame of the peer
MaxPeerCuts == 1

\* a frame as the peer lays it out, in the order unmarshal reads the fields:
\* the leading marker, the version, the declared header length (delta more
\* than the header without timestamps has), the fixed fields, the two
\* strings, the five timestamps if ts, the trailing marker, the payload
PeerFrame(f) ==
    BE16(f.preamble)
    \o BE16(f.version)
    \o BE16(uint16(header_LEN_NO_TS + Len(f.m.Topic) + Len(f.m.ReplyTopic) + f.delta))
    \o BE32(f.m.SequenceNumber)
    \o BE32(flagsOut(f.m))
    \o BE32(f.m.ControlData)
    \o BE32(Len(f.m.Payload))
    \o writeString(f.m.Topic)
    \o writeString(f.m.ReplyTopic)
    \o (IF f.ts THEN Bytes(header_LEN_W_TS - header_LEN_NO_TS, 0) ELSE <<>>)
    \o BE16(f.postamble)
    \o f.m.Payload

\* the frames the peer sends: well-formed ones and ones with a wrong marker,
\* a wrong version, a header length that fits no layout, and a timestamp
\* block that is there or not whatever the header length says
PeerInputs ==
    {[pkg |-> p, m |-> msg, preamble |-> a, version |-> v, delta |-> d,
      ts |-> t, postamble |-> z] :
        p \in {"rtmessage", "internal"},
        msg \in {[ZeroMessage EXCEPT !.Type = MsgTypeRequest, !.SequenceNumber = 66051,
                                     !.Topic = TopicA, !.Payload = Payload2],
                 [ZeroMessage EXCEPT !.Type = MsgTypeResponse, !.Topic = TopicAB,
                                     !.ReplyTopic = ReplyR]},
        a \in {header_MARKER, 0},
        v \in {header_VERSION, header_VERSION + 1},
        d \in {0, header_LEN_W_TS - header_LEN_NO_TS, OddDelta},
        t \in BOOLEAN,
        z \in {header_MARKER, 0}}

\* the peer writes its frame to the socket
PeerSend ==
    /\ cpc = "peer"
    /\ encoded' = [err |-> "nil", b |-> PeerFrame(input)]
    /\ cpc' = "encoded"
    /\ UNCHANGED <<connVars, cbVars, issued, timeVars, input, reads, decoded, heard>>

\* one frame of the peer, from any of PeerInputs, is read by a decoder
InitPeer ==
    /\ InitConn /\ InitCb /\ issued = NoneIssued /\ inbound = MaxRecv /\ TimeOff
    /\ cpc = "peer"
    /\ input \in PeerInputs
    /\ encoded = NothingEncoded
    /\ reads = <<>>
    /\ decoded = NothingDecoded
    /\ heard = <<>>

NextPeer ==
    \/ PeerSend
    \/ \E cuts \in CutSets(Len(encoded.b) - 1, MaxPeerCuts) : Deliver(cuts)
    \/ Unmarshal
    \/ Decode

SpecPeer == InitPeer /\ [][NextPeer]_vars

\* sooner(timeout, ctx) at time.Now() = t, for a context whose deadline is
\* ctxd: deadline := the deadline of ctx, if it has one; if timeout > 0 and
\* that deadline is set and after now + timeout, return now + timeout; return
\* deadline
sooner(timeout, ctxd, t) ==
    LET deadline == ctxd
        when == t + timeout
    IN  IF timeout > 0 /\ deadline # 0 /\ deadline > when THEN when ELSE deadline

\* setReadDeadline on a connected Connection: when := sooner(c.readTimeout, ctx);
\* if !when.IsZero() { c.conn.SetReadDeadline(when) }
setReadDeadline ==
    /\ now > 0
    /\ readDeadline = Unset
    /\ LET when == sooner(readTimeout, ctxDeadline, now)
       IN  readDeadline' = IF when # 0 THEN Deadline(when) ELSE NoDeadline
    /\ UNCHANGED <<connVars, cbVars, issued, codecVars, readTimeout, writeTimeout, now,
                   ctxDeadline, writeDeadline, nsend, wres>>

\* setWriteDeadline on a connected Connection: when := sooner(c.readTimeout, ctx);
\* if !when.IsZero() { c.conn.SetWriteDeadline(when) }
setWriteDeadline ==
    /\ now > 0
    /\ writeDeadline = Unset
    /\ LET when == sooner(readTimeout, ctxDeadline, now)
       IN  writeDeadline' = IF when # 0 THEN Deadline(when) ELSE NoDeadline
    /\ UNCHANGED <<connVars, cbVars, issued, codecVars, readTimeout, writeTimeout, now,
                   ctxDeadline, readDeadline, nsend, wres>>

\* a Connection made with any WithReadTimeout and WithWriteTimeout, and a
\* Send, Subscribe or readLoop at any time with any context
InitDeadline ==
    /\ InitConn /\ InitCb /\ issued = NoneIssued /\ inbound = MaxRecv /\ CodecOff
    /\ readTimeout \in 0..MaxTimeout
    /\ writeTimeout \in 0..MaxTimeout
    /\ now \in 1..MaxNow
    /\ ctxDeadline \in 0..(MaxNow + MaxTimeout + 1)
    /\ readDeadline = Unset
    /\ writeDeadline = Unset
    /\ nsend = 0
    /\ wres = "none"

NextDeadline == setReadDeadline \/ setWriteDeadline

SpecDeadline == InitDeadline /\ [][NextDeadline]_vars

\* the latest time of a run with several calls of c.send, and the number of
\* those calls
MaxClock == 4
MaxSends == 2

\* a net.Conn keeps the deadline it was given last: SetWriteDeadline(when)
\* replaces it, and a setWriteDeadline that makes no call leaves it
KeptDeadline(sock, when) == IF when # 0 THEN Deadline(when) ELSE sock

\* conn.Write on a socket whose write deadline is d, at time t: it fails with a
\* timeout once the deadline has passed
Write(d, t) == IF d.called = "set" /\ t >= d.when THEN "timeout" ELSE "ok"

\* c.send(ctx, msg) on a connected Connection, for a frame that one Write
\* takes: select { case <-ctx.Done(): return ctx.Err() default: } then
\* c.setWriteDeadline(ctx), then c.conn.Write(b[sent:])
send(ctxd) ==
    /\ nsend < MaxSends
    /\ nsend' = nsend + 1
    /\ ctxDeadline' = ctxd
    /\ IF ctxd # 0 /\ now >= ctxd
       THEN /\ wres' = "ctx"
            /\ UNCHANGED writeDeadline
       ELSE /\ writeDeadline' = KeptDeadline(writeDeadline,
                                             sooner(readTimeout, ctxd, now))
            /\ wres' = Write(writeDeadline', now)
    /\ UNCHANGED <<connVars, cbVars, issued, codecVars, readTimeout, writeTimeout, now,
                   readDeadline>>

\* time passes between two calls
Tick ==
    /\ now < MaxClock
    /\ now' = now + 1
    /\ UNCHANGED <<connVars, cbVars, issued, codecVars, readTimeout, writeTimeout,
                   ctxDeadline, readDeadline, writeDeadline, nsend, wres>>

\* a Connection made with any timeout options and just connected: the socket
\* has no deadline
InitSend ==
    /\ InitConn /\ InitCb /\ issued = NoneIssued /\ inbound = MaxRecv /\ CodecOff
    /\ readTimeout \in 0..MaxTimeout
    /\ writeTimeout \in 0..MaxTimeout
    /\ now = 1
    /\ ctxDeadline = 0
    /\ readDeadline = NoDeadline
    /\ writeDeadline = NoDeadline
    /\ nsend = 0
    /\ wres = "none"

NextSend ==
    \/ \E ctxd \in 0..(MaxClock + 1) : send(ctxd)
    \/ Tick

SpecSend == InitSend /\ [][NextSend]_vars

NextCb ==
    \/ \E p \in Callers : CbCallConnect(p)
    \/ \E p \in Callers : CbCallDisconnect(p)
    \/ \E p \in Callers : CbCallSend(p)
    \/ \E p \in Callers : CbCallSendRequest(p)
    \/ \E p \in Callers : CbCallAddListener(p)
    \/ \E p \in Callers : CbCancelCtx(p)
    \/ \E p \in Callers : CbConnect(p)
    \/ \E p \in Callers : CbDisconnect(p)
    \/ \E p \in Callers : CbSendBegin(p)
    \/ \E p \in Callers : CbSendAllSelect(p)
    \/ \E p \in Callers : CbSendAllWrite(p)
    \/ \E p \in Callers : CbRegister(p)
    \/ \E k \in Sessions : CbReaderSelect(k)
    \/ \E k \in Sessions : CbReaderRead(k)

SpecCb == Init /\ [][NextCb]_vars

---------------------------------------------------------------------------
(* What the peer makes of a socket's bytes. *)

\* frame f lies on the wire w as one contiguous run of its FrameLen units, and
\* no unit of it lies anywhere else
WholeOnWire(f, w) ==
    /\ \E j \in 1..Len(w) :
          /\ j + FrameLen - 1 <= Len(w)
          /\ \A i \in 1..FrameLen : w[j + i - 1] = [f |-> f, i |-> i]
    /\ Cardinality({j \in 1..Len(w) : w[j].f = f}) = FrameLen

\* w is a concatenation of whole frames
WholeFrames(w) ==
    /\ Len(w) % FrameLen = 0
    /\ \A j \in 1..Len(w) :
          /\ w[j].i = ((j - 1) % FrameLen) + 1
          /\ w[j].f = w[j - (w[j].i - 1)].f

\* the frames of a concatenation of whole frames, in order
FramesOf(w) == [n \in 1..(Len(w) \div FrameLen) |-> w[(n - 1) * FrameLen + 1].f]

RECURSIVE PeerFrames(_)
\* the frames a peer decodes from w the way unmarshal does: a header at the
\* start of each frame, then as many bytes as the header announces; a unit that
\* is no frame start where one is due ends the decoding
PeerFrames(w) ==
    IF Len(w) < FrameLen \/ w[1].i # 1
    THEN {}
    ELSE (IF \A i \in 1..FrameLen : w[i] = [f |-> w[1].f, i |-> i]
          THEN {w[1].f} ELSE {})
         \cup PeerFrames(SubSeq(w, FrameLen + 1, Len(w)))

---------------------------------------------------------------------------
(* C1: while no caller's context is cancelled and no call has failed, the  *)
(* bytes written to a socket by concurrent Send, SendRequest and Subscribe *)
(* calls are a concatenation of frames: no unit of one frame lies between  *)
(* two units of another.                                                   *)

\* no unit of another frame lies between two units of one frame
NoInterleaving(w) ==
    \A i \in 1..Len(w), j \in 1..Len(w), l \in 1..Len(w) :
        (i < j /\ j < l /\ w[i].f = w[l].f) => w[j].f = w[i].f

C1_FramesDoNotInterleave ==
    (\A p \in Callers : ~cbcdone[p] /\ cbres[p] \in {"none", "ok"})
    => \A k \in Sessions : NoInterleaving(cbwire[k])

\* the same property of the revision whose Send holds the mutex
LockedFramesDoNotInterleave ==
    (\A p \in Callers : ~cdone[p] /\ res[p] \in {"none", "ok"})
    => \A k \in Sessions : NoInterleaving(wire[k])

---------------------------------------------------------------------------
(* C11: the route ids one connection hands out are strictly increasing in  *)
(* the order they are handed out, so none is handed out twice, also when   *)
(* the counter passes its maximum.                                         *)

C11_RouteIdsIncrease ==
    \A g \in DOMAIN issued :
        \A i \in 1..Len(issued[g]), j \in 1..Len(issued[g]) :
            i < j => issued[g][i] < issued[g][j]

---------------------------------------------------------------------------
(* C12: Subscribe on a connected connection does not end the process: it    *)
(* adds the topic to c.subscriptions, takes a fresh route id and starts     *)
(* writing one subscribe frame that carries that topic and that route id.   *)

C12_SubscribeRegistersAndSends ==
    [][\A p \in Callers :
          (pc[p] = "Subscribe.lock" /\ pc'[p] # "Subscribe.lock" /\ conn # NoConn)
          => /\ ~crashed'
             /\ pc'[p] = "send.select"
             /\ frame'[p].kind = "sub"
             /\ frame'[p].topic \in subscriptions'.keys
             /\ routeID' # routeID
             /\ frame'[p].route = routeID']_vars

\* a Subscribe on a connected connection ended the process
C12_Witness ==
    \E p \in Callers :
        /\ op[p] = "Subscribe" /\ pc[p] = "panic" /\ crashed
        /\ conn # NoConn /\ ~closed[conn]

---------------------------------------------------------------------------
(* C13: every frame readLoop completes is dispatched: to the callback       *)
(* registered for its route id, which is then retired, so that no two       *)
(* frames reach the callback of one route id; or else to the general        *)
(* message listeners. No completed frame goes to nobody.                    *)

C13_DispatchedOnceOrBroadcast ==
    /\ \A i \in 1..Len(dispatched) : dispatched[i].to # "nobody"
    /\ \A i \in 1..Len(dispatched), j \in 1..Len(dispatched) :
          (i < j /\ dispatched[i].to = "handler" /\ dispatched[j].to = "handler")
          => dispatched[i].ControlData # dispatched[j].ControlData

\* two frames with the route id of one AddListener both reached its callback
C13_Witness ==
    \E i \in 1..Len(dispatched), j \in 1..Len(dispatched) :
        /\ i < j
        /\ dispatched[i].to = "handler" /\ dispatched[j].to = "handler"
        /\ dispatched[i].ControlData = dispatched[j].ControlData

---------------------------------------------------------------------------
(* C14: every message listener is handed the frames in the order in which  *)
(* they were completed on the wire: of two calls of OnMessage of one       *)
(* listener, the earlier one carries the frame that was completed earlier. *)
(* A readLoop that Disconnect cancelled while it held a completed frame    *)
(* still visits the listeners, and may do so after the readLoop of the    *)
(* next Connect has delivered a later frame.                                *)
C14_DeliveredInWireOrder ==
    \A i, j \in 1..Len(delivered) :
        (i < j /\ delivered[i][1] = delivered[j][1])
            => delivered[i][2] < delivered[j][2]

\* a listener was handed two frames
C14_Witness ==
    \E i, j \in 1..Len(delivered) :
        /\ i < j
        /\ delivered[i][1] = delivered[j][1]
        /\ delivered[i][2] # delivered[j][2]

---------------------------------------------------------------------------
(* C2: when readLoop gets an error from setReadDeadline or unmarshal, every *)
(* read-error listener registered at that moment is called with that error  *)
(* before readLoop starts the Disconnect it runs on its way out; readLoop    *)
(* then ends, and when it ends the socket it served is closed and c.conn is *)
(* cleared.                                                                  *)

---------------------------------------------------------------------------
(* C3: Disconnect on a connection that is disconnected (or was never       *)
(* connected) returns success and changes nothing: nothing is closed,      *)
(* nothing is cancelled, every field of the connection keeps its value.    *)

C3_DisconnectIdempotent ==
    [][\A t \in Threads :
          (dpc[t] = "wait" /\ dpc'[t] # "wait" /\ conn = NoConn)
          => /\ dpc'[t] = "none"
             /\ dret'[t] = "ok"
             /\ UNCHANGED <<conn, cancel, closed, ctxDone, m, subscriptions,
                            errListeners, msgListeners, routeID, wire, url,
                            crashed>>]_vars

\* both callers' Disconnect returned success although one socket at most was
\* ever open: one of the two calls met a disconnected connection
C3_Witness ==
    /\ \A p \in Callers : op[p] = "Disconnect" /\ pc[p] = "idle" /\ res[p] = "ok"
    /\ dialed = 1
    /\ closed[1]
    /\ conn = NoConn

---------------------------------------------------------------------------
(* C4: if a subscribe inside Connect fails, Connect returns the error and   *)
(* leaves the connection disconnected: socket closed, conn cleared.         *)

C4_ConnectFailureCloses ==
    [][\A p \in Callers :
          (op[p] = "Connect" /\ res[p] = "none" /\ res'[p] = "err"
             /\ pc[p] \in {"send.select", "send.Write"})
          => (conn' = NoConn /\ closed'[conn])]_vars

---------------------------------------------------------------------------
(* C5: when Connect on a disconnected connection is about to return         *)
(* success, the socket it opened carries whole subscribe frames only: one   *)
(* for the inbox topic, one for each key of c.subscriptions, nothing else.  *)

C5_ConnectSubscribes ==
    \A p \in Callers :
        (pc[p] = "Connect.subscribe" /\ todo[p] = <<>>)
        => LET w == wire[conn]
               fs == FramesOf(w)
               want == {Inbox} \cup subscriptions.keys
           IN /\ WholeFrames(w)
              /\ Len(fs) = Cardinality(want)
              /\ \A n \in 1..Len(fs) : fs[n].kind = "sub"
              /\ \A t \in want :
                    Cardinality({n \in 1..Len(fs) : fs[n].topic = t}) = 1

C5_Witness ==
    \E p \in Callers :
        /\ pc[p] = "Connect.subscribe"
        /\ todo[p] = <<>>
        /\ Len(wire[conn]) = FrameLen
        /\ wire[conn][1].f.topic = Inbox

---------------------------------------------------------------------------
(* C6: Connect on a connected connection returns success and does nothing: *)
(* no dial, no second reader, no subscribe frame, no route id, the same      *)
(* socket and cancel function.                                               *)

C6_ConnectNoop ==
    [][\A p \in Callers :
          (pc[p] = "Connect.lock" /\ pc'[p] # "Connect.lock" /\ conn # NoConn)
          => /\ pc'[p] = "idle"
             /\ res'[p] = "ok"
             /\ UNCHANGED <<conn, cancel, dialed, rpc, wire, routeID, nframes,
                            closed, ctxDone, subscriptions>>]_vars

\* both callers' Connect returned success and one socket only was dialled
C6_Witness ==
    /\ \A p \in Callers : op[p] = "Connect" /\ pc[p] = "idle" /\ res[p] = "ok"
    /\ dialed = 1
    /\ conn = 1

---------------------------------------------------------------------------
(* C7: a Disconnect that a listener calls on readLoop's goroutine returns,  *)
(* and readLoop then ends (unless the process dies of a panic raised         *)
(* elsewhere).                                                               *)

---------------------------------------------------------------------------
(* C8: a Send whose context is cancelled while units of its frame are       *)
(* unwritten returns the cancellation error without waiting for the         *)
(* transport to take the rest.                                               *)

C8_CancelReturnsAtOnce ==
    \A p \in Callers :
        midCancel[p] => /\ pc[p] # "send.Write"
                        /\ pc[p] = "idle" => res[p] = "cancelled"

---------------------------------------------------------------------------
(* C9: cancelling the context of a Send that is mid-write neither aborts    *)
(* nor corrupts the Send of another caller: that Send returns success and   *)
(* the peer decodes its frame as one complete frame.                        *)

C9_PeerGetsOtherFrame ==
    \A a \in Callers, b \in Callers :
        (/\ a # b
         /\ op[a] = "Send" /\ midCancel[a] /\ pc[a] = "idle" /\ res[a] = "cancelled"
         /\ op[b] = "Send" /\ pc[b] = "idle" /\ res[b] = "ok"
         /\ frame[b].sock = frame[a].sock)
        => frame[b] \in PeerFrames(wire[frame[b].sock])

\* what does hold of the other Send: it returns the cancellation error only if
\* its own context was cancelled, and when it returns success its frame lies on
\* the socket as one contiguous, complete run of units
SendWritesWholeFrame ==
    \A p \in Callers :
        (op[p] = "Send" /\ pc[p] = "idle")
        => /\ res[p] = "cancelled" => cdone[p]
           /\ res[p] = "ok" => WholeOnWire(frame[p], wire[frame[p].sock])

\* a's Send was cancelled with its frame cut short; b's Send then returned
\* success with its frame whole on the same socket, where the peer, still
\* reading the rest of a's frame, does not find it
C9_Witness ==
    \E a \in Callers, b \in Callers :
        /\ a # b
        /\ op[a] = "Send" /\ midCancel[a] /\ pc[a] = "idle" /\ res[a] = "cancelled"
        /\ sent[a] > 0 /\ sent[a] < FrameLen
        /\ op[b] = "Send" /\ pc[b] = "idle" /\ res[b] = "ok"
        /\ frame[b].sock = frame[a].sock
        /\ frame[b].id > frame[a].id
        /\ WholeOnWire(frame[b], wire[frame[b].sock])
        /\ frame[b] \notin PeerFrames(wire[frame[b].sock])

---------------------------------------------------------------------------
(* C10: the step in which Send or Subscribe returns the cancellation error  *)
(* of its context leaves the connection as it is: still connected to the    *)
(* same open socket, the reader alive, the reader's context not cancelled.  *)

C10_CancelKeepsConnection ==
    [][\A p \in Callers :
          (op[p] \in {"Send", "Subscribe"} /\ res[p] = "none" /\ res'[p] = "cancelled")
          => /\ conn # NoConn
             /\ UNCHANGED <<conn, cancel, closed, ctxDone, rpc>>
             /\ ~closed'[conn]
             /\ ~ctxDone'[conn]
             /\ rpc'[conn] \notin {"idle", "exited"}]_vars

C10_Witness ==
    \E p \in Callers :
        /\ op[p] = "Send" /\ pc[p] = "idle" /\ res[p] = "cancelled"
        /\ conn = frame[p].sock
        /\ ~closed[conn]
        /\ ~ctxDone[conn]
        /\ rpc[conn] \notin {"idle", "exited"}

---------------------------------------------------------------------------
(* C15: a Send that finds the connection disconnected (c.conn is nil, never *)
(* connected or after Disconnect) returns ErrInvalidState, whatever the     *)
(* message is, also one marshal would refuse, and writes no byte to any     *)
(* socket.                                                                   *)

C15_SendDisconnectedInvalidState ==
    [][\A p \in Callers :
          (pc[p] = "Send.lock" /\ pc'[p] # "Send.lock" /\ conn = NoConn)
          => /\ pc'[p] = "idle"
             /\ res'[p] = "state"
             /\ wire' = wire
             /\ nframes' = nframes]_vars

\* a Send after Disconnect has returned ErrInvalidState
C15_Witness ==
    \E p \in Callers :
        /\ op[p] = "Send" /\ pc[p] = "idle" /\ res[p] = "state"
        /\ dialed > 0
        /\ conn = NoConn

---------------------------------------------------------------------------
(* C16: New returns a Connection only when the scheme of the URL is unix or *)
(* tcp; for a URL with any other scheme it returns no Connection and an     *)
(* error that wraps ErrInvalidInput. The Connection New returns is          *)
(* disconnected: no socket was dialled and no readLoop runs before a call   *)
(* is made on it.                                                            *)

C16_NewOnlyUnixOrTcp ==
    /\ [][(phase = "new" /\ phase' # "new")
            => /\ phase' = "ready" => /\ rawURL'.scheme \in {"unix", "tcp"}
                                      /\ newErr' = "none"
                                      /\ url' = rawURL'.scheme
               /\ rawURL'.scheme \notin {"unix", "tcp"}
                     => /\ phase' = "failed"
                        /\ newErr' = "ErrInvalidInput"]_vars
    /\ [](ops = 0 => /\ conn = NoConn
                     /\ dialed = 0
                     /\ \A k \in Sessions : rpc[k] = "idle")

\* New was given a URL of another scheme and returned an error
C16_Witness ==
    /\ phase = "failed"
    /\ rawURL.scheme \notin {"unix", "tcp"}

\* the same for the URLs url.Parse accepts
NewOnlyUnixOrTcpWellFormed ==
    /\ [][(phase = "new" /\ phase' # "new")
            => /\ phase' = "ready" => /\ rawURL'.scheme \in {"unix", "tcp"}
                                      /\ newErr' = "none"
                                      /\ url' = rawURL'.scheme
               /\ (rawURL'.parses /\ rawURL'.scheme \notin {"unix", "tcp"})
                     => /\ phase' = "failed"
                        /\ newErr' = "ErrInvalidInput"]_vars
    /\ [](ops = 0 => /\ conn = NoConn
                     /\ dialed = 0
                     /\ \A k \in Sessions : rpc[k] = "idle")

---------------------------------------------------------------------------
(* The codec claims. *)

\* the timestamps of the Message that was given to the codec, and whether
\* none of them is set
TimesOf(in) == IF in.pkg = "internal" THEN in.m.Times ELSE in.m.Timestamps
AllZero(ts) == \A i \in 1..Len(ts) : ts[i] = 0

\* a valid Message: a topic of 1..128 bytes, a reply topic of at most 128
ValidInput ==
    /\ Len(input.m.Topic) \in 1..header_MAX_TOPIC_LEN
    /\ Len(input.m.ReplyTopic) <= header_MAX_TOPIC_LEN

\* equal in every field; timestamps that are all zero count as none
SameMessage(a, b) ==
    IF input.pkg = "internal" THEN a = b
    ELSE [a EXCEPT !.Timestamps = IF AllZero(@) THEN <<>> ELSE @]
             = [b EXCEPT !.Timestamps = IF AllZero(@) THEN <<>> ELSE @]

(* C17: round trip. For every valid Message, decoding the bytes that       *)
(* encoding it produced gives no error and a Message equal to it in every   *)
(* field, also when all timestamps are zero. marshal writes five zero       *)
(* timestamps whatever m.Timestamps holds and has no flag for               *)
(* PayloadTypeMsgPack; decode of the internal package fails on every frame. *)
C17_RoundTrip ==
    (cpc = "decoded" /\ ValidInput)
        => /\ decoded.err = "nil"
           /\ SameMessage(decoded.m, input.m)

\* a valid Message whose timestamps are all zero went through marshal and
\* unmarshal
C17_Witness ==
    /\ cpc = "decoded"
    /\ input.pkg = "rtmessage"
    /\ ValidInput
    /\ input.m.Timestamps = ZeroTimes
    /\ decoded.err = "nil"

(* C18: chunked delivery. However the bytes of a frame are split into      *)
(* chunks that successive Reads return, unmarshal returns the Message it    *)
(* returns when one Read returns them all, it leaves no byte unread, and a  *)
(* second unmarshal finds no further frame; readUntil of the callback       *)
(* revision fills its buffer with the same bytes and leaves the same rest.  *)
C18_ChunkedSameAsWhole ==
    /\ (cpc = "decoded" /\ input.pkg = "rtmessage")
          => LET whole == unmarshal(<<encoded.b>>)
             IN  /\ whole.err = "nil"
                 /\ decoded.err = "nil"
                 /\ decoded.m = whole.m
                 /\ decoded.r = <<>>
                 /\ unmarshal(decoded.r).err # "nil"
    /\ cpc = "preamble"
          => LET whole == readUntil(<<encoded.b>>, headerPreambleLength, <<>>)
             IN  /\ whole.err = "nil"
                 /\ decoded.err = "nil"
                 /\ decoded.data = whole.data
                 /\ Flatten(decoded.r) = Flatten(whole.r)

\* a frame was decoded that came in three chunks, the first of one byte
C18_Witness ==
    /\ cpc = "decoded"
    /\ input.pkg = "rtmessage"
    /\ Len(reads) = MaxCuts + 1
    /\ Len(reads[1]) = 1
    /\ decoded.err = "nil"

(* C19: in every frame the encoder produces without error, the 16-bit      *)
(* headerLength field is the number of bytes from the leading marker        *)
(* through the trailing marker, so that the trailing marker ends and the    *)
(* payload starts at that offset. marshal accepts a topic of any length and *)
(* writes uint16(headerLength).                                              *)
C19_HeaderLengthExact ==
    (cpc \in {"encoded", "delivered", "decoded", "preamble"} /\ encoded.err = "nil")
        => LET headerLength == U16(SubSeq(encoded.b, 5, 6))
           IN  /\ headerLength = Len(encoded.b) - Len(input.m.Payload)
               /\ SubSeq(encoded.b, headerLength - 1, headerLength) = BE16(header_MARKER)

\* marshal has encoded a Message whose topic is longer than header_MAX_TOPIC_LEN
C19_Witness ==
    /\ cpc = "encoded"
    /\ input.pkg = "rtmessage"
    /\ encoded.err = "nil"
    /\ Len(input.m.Topic) > header_MAX_TOPIC_LEN

(* C20: the encoder leaves the 20-byte timestamp block out of the frame     *)
(* when all timestamps are zero and puts it in only when one is not: the    *)
(* header is header_LEN_NO_TS bytes plus the two strings in the first case, *)
(* header_LEN_W_TS plus the two strings in the second. marshal always       *)
(* writes the block.                                                         *)
C20_TimestampBlockOnlyIfNonZero ==
    (cpc \in {"encoded", "delivered", "decoded", "preamble"} /\ encoded.err = "nil")
        => Len(encoded.b) - Len(input.m.Payload)
               = (IF AllZero(TimesOf(input)) THEN header_LEN_NO_TS ELSE header_LEN_W_TS)
                     + Len(input.m.Topic) + Len(input.m.ReplyTopic)

\* a Message whose five timestamps are zero was encoded
C20_Witness ==
    /\ cpc = "encoded"
    /\ encoded.err = "nil"
    /\ TimesOf(input) = ZeroTimes

\* the same two properties for encode of the internal package alone
InternalEncodeExact ==
    (input.pkg = "internal" /\ cpc \in {"encoded", "decoded"} /\ encoded.err = "nil")
        => /\ U16(SubSeq(encoded.b, 5, 6)) = Len(encoded.b) - Len(input.m.Payload)
           /\ Len(encoded.b) - Len(input.m.Payload)
                  = (IF AllZero(input.m.Times) THEN header_LEN_NO_TS ELSE header_LEN_W_TS)
                        + Len(input.m.Topic) + Len(input.m.ReplyTopic)

(* C22: encoding fails with an invalid-input error and produces no bytes   *)
(* whenever the topic is empty or longer than header_MAX_TOPIC_LEN bytes or *)
(* the reply topic is longer than that. marshal refuses only the empty      *)
(* topic, with an error that wraps nothing; encode of the internal package  *)
(* takes the empty topic.                                                    *)
C22_OversizeOrEmptyRefused ==
    (/\ cpc = "encoded"
     /\ \/ Len(input.m.Topic) = 0
        \/ Len(input.m.Topic) > header_MAX_TOPIC_LEN
        \/ Len(input.m.ReplyTopic) > header_MAX_TOPIC_LEN)
        => /\ encoded.err \in {"ErrInvalidInput", "ErrInvalidMsg: topic too large",
                                "ErrInvalidMsg: reply topic too large"}
           /\ encoded.b = <<>>

\* a Message with a topic of 129 bytes was given to marshal
C22_Witness ==
    /\ cpc = "encoded"
    /\ input.pkg = "rtmessage"
    /\ Len(input.m.Topic) = header_MAX_TOPIC_LEN + 1

\* what does hold: no encoder returns both an error and bytes, marshal refuses
\* the empty topic, encode the topics over header_MAX_TOPIC_LEN
EncodeRefusals ==
    cpc = "encoded"
        => /\ encoded.err # "nil" => encoded.b = <<>>
           /\ (input.pkg = "rtmessage" /\ Len(input.m.Topic) = 0) => encoded.err # "nil"
           /\ (/\ input.pkg = "internal"
               /\ \/ Len(input.m.Topic) > header_MAX_TOPIC_LEN
                  \/ Len(input.m.ReplyTopic) > header_MAX_TOPIC_LEN)
                 => encoded.err # "nil"

(* C24: whatever the Message, the flags word marshal writes into the frame *)
(* never has both the REQUEST bit and the RESPONSE bit set.                 *)
C24_RequestResponseExclusive ==
    (cpc \in {"encoded", "delivered", "decoded", "preamble"}
     /\ input.pkg = "rtmessage" /\ encoded.err = "nil")
        => LET flags == U32(SubSeq(encoded.b, 11, 14))
           IN  ~(HasFlag(flags, flags_REQUEST) /\ HasFlag(flags, flags_RESPONSE))

\* a response was encoded, and its frame has the RESPONSE bit
C24_Witness ==
    /\ cpc = "encoded"
    /\ input.pkg = "rtmessage"
    /\ input.m.Type = MsgTypeResponse
    /\ encoded.err = "nil"
    /\ HasFlag(U32(SubSeq(encoded.b, 11, 14)), flags_RESPONSE)

---------------------------------------------------------------------------
(* C25: every frame SendRequest writes has the REQUEST flag set and the     *)
(* connection's inbox as its reply topic; every frame a plain Send writes   *)
(* (also the Send inside AddListener) has the REQUEST flag clear and an    *)
(* empty reply topic.                                                        *)
C25_RequestFlagAndReplyTopic ==
    \A k \in Sessions : \A j \in 1..Len(cbwire[k]) :
        LET f == cbwire[k][j].f
        IN  /\ f.kind = "req" => /\ HasFlag(f.flags, flags_REQUEST)
                                 /\ f.replyTopic = inboxName
            /\ f.kind \in {"msg", "sub"} => /\ ~HasFlag(f.flags, flags_REQUEST)
                                            /\ f.replyTopic = ""

\* a frame of SendRequest and a frame of Send lie on the wire
C25_Witness ==
    \E k, l \in Sessions :
        /\ \E j \in 1..Len(cbwire[k]) : cbwire[k][j].f.kind = "req"
        /\ \E j \in 1..Len(cbwire[l]) : cbwire[l][j].f.kind = "msg"

\* the place of the first unit of frame f on the wire w
FirstUnit(w, f) == CHOOSE j \in 1..Len(w) : w[j].f = f /\ \A i \in 1..(j - 1) : w[i].f # f

(* C26: the sequence numbers of the frames a Connection writes increase in  *)
(* wire order: of two frames on one socket, the one whose first byte was    *)
(* written first carries the smaller sequence number, also with concurrent  *)
(* callers. makeEncodedHeader draws the number before anything orders the   *)
(* writers.                                                                  *)
C26_SequenceNumbersInWireOrder ==
    \A k \in Sessions : \A i, j \in 1..Len(cbwire[k]) :
        LET w == cbwire[k]
        IN  (w[i].f # w[j].f /\ FirstUnit(w, w[i].f) < FirstUnit(w, w[j].f))
                => w[i].f.seq < w[j].f.seq

\* the frames of two callers lie on one socket
C26_Witness ==
    \E k \in Sessions : \E i, j \in 1..Len(cbwire[k]) :
        cbwire[k][i].f.id # cbwire[k][j].f.id

---------------------------------------------------------------------------
(* C27: with a write timeout configured, the deadline setWriteDeadline puts *)
(* on the socket before a write comes from the write timeout: a deadline is *)
(* set, and it is no later than now + c.writeTimeout. setWriteDeadline      *)
(* passes c.readTimeout to sooner, and sooner returns no deadline when the  *)
(* context has none.                                                         *)
C27_WriteDeadlineFromWriteTimeout ==
    (writeTimeout > 0 /\ writeDeadline # Unset)
        => /\ writeDeadline.called = "set"
           /\ writeDeadline.when <= now + writeTimeout

\* setWriteDeadline has run on a Connection with a write timeout
C27_Witness ==
    /\ writeTimeout > 0
    /\ writeDeadline.called = "set"

---------------------------------------------------------------------------
\* the readLoop goroutines that were started and have not returned
AliveReaders == {k \in Sessions : rpc[k] \notin {"idle", "exited"}}

(* C28: whatever Connect and Disconnect calls were made, at most one        *)
(* readLoop goroutine of the Connection is alive at any moment, and one is  *)
(* alive whenever the Connection is connected. Disconnect cancels the       *)
(* readLoop and returns without waiting for it; the next Connect starts     *)
(* another.                                                                  *)
C28_OneReader ==
    /\ Cardinality(AliveReaders) <= 1
    /\ conn # NoConn => AliveReaders # {}

\* Disconnect and then Connect have returned, and the Connection is connected
C28_Witness ==
    /\ conn # NoConn
    /\ dialed > 1
    /\ \A p \in Callers : pc[p] = "idle"

\* the second half alone
ReaderWhenConnected == conn # NoConn => AliveReaders # {}

\* the steps of c.state and the hand-over alone: c.state moves only to the next
\* state of the cycle, and a frame is handed over only by the step from
\* ReadPayload to ReadHeaderPreamble, one frame a step
ReadStateCycle ==
    [][/\ state' # state => state' = NextReadState(state)
       /\ dispatched' # dispatched =>
              /\ state = "ReadPayload" /\ state' = "ReadHeaderPreamble"
              /\ Len(dispatched') = Len(dispatched) + 1]_vars

\* C29: the frame reader goes round AwaitingPreamble, AwaitingHeaderBody,
\* AwaitingPayload only, and every frame is handed over with the header that
\* was decoded during the same cycle: a reader about to read a header body or a
\* payload has the header of a preamble it read, and the i-th frame handed
\* over carries the header of the i-th preamble
C29_HeaderOfTheSameCycle ==
    /\ \A k \in Sessions : cbrpc[k] = "readUntil" => ~NilHeader(k)
    /\ \A i \in 1..Len(dispatched) : dispatched[i].header = i

\* a readLoop is about to read a header body or a payload, so a cycle is under
\* way, and a frame was handed over before
C29_Witness ==
    /\ \E k \in Sessions : cbrpc[k] = "readUntil" /\ state # "ReadHeaderPreamble"
    /\ dispatched # <<>>

\* a frame is handed over with the header of another frame
StaleHeaderHandedOver ==
    \E i \in 1..Len(dispatched) : dispatched[i].header # i

\* readLoop k of the callback revision returned though its context was never
\* cancelled: a read failed or a buffer did not decode
EndedByFailure(k) == cbrpc[k] = "exited" /\ ~cbctxDone[k]

\* C30: reading is fail-fast and the failure is surfaced as fatal: once a
\* readLoop has ended on a read or validation failure, the connection it read
\* for is no longer the connection in use (callers get an invalid-state error
\* instead of a reader that ended silently)
C30_FailureSurfaced ==
    \A k \in Sessions : EndedByFailure(k) => con # k

\* a readLoop ended on a failure in the middle of a frame
C30_Witness ==
    \E k \in Sessions : EndedByFailure(k) /\ state # "ReadHeaderPreamble"

\* after a readLoop ended on a failure, a Send on the same connection still
\* succeeds
SendAfterSilentEnd ==
    \E k \in Sessions : \E p \in Callers :
        /\ EndedByFailure(k) /\ con = k
        /\ cbop[p] = "Send" /\ cbpc[p] = "sendAll.Write"

\* a decoder has read the frame of the peer
PeerFrameRead == cpc = "decoded" /\ input \in PeerInputs

\* the decoder refused the frame: an error, the zero Message, and no message
\* listener was called
Refused ==
    /\ decoded.err # "nil"
    /\ decoded.m \in {ZeroMessage, ZeroInternalMessage}
    /\ heard = <<>>

\* C23: a frame whose leading marker is not 0xAAAA, whose version is not 2 or
\* whose trailing marker is not 0xAAAA is refused with an error, no Message
\* is returned and no message listener hears of it
C23_BadMarkerOrVersionRefused ==
    (PeerFrameRead /\ (\/ input.preamble # header_MARKER
                       \/ input.version # header_VERSION
                       \/ input.postamble # header_MARKER))
        => Refused

\* unmarshal has read a frame of the peer that is in order but for its version
C23_Witness ==
    /\ PeerFrameRead /\ input.pkg = "rtmessage"
    /\ input.preamble = header_MARKER /\ input.postamble = header_MARKER
    /\ input.version # header_VERSION
    /\ input.delta = header_LEN_W_TS - header_LEN_NO_TS /\ input.ts
    /\ decoded.err = "invalid version"

\* the frame of the peer has both markers and the version in order
MarkersInOrder ==
    /\ input.preamble = header_MARKER /\ input.version = header_VERSION
    /\ input.postamble = header_MARKER

\* C21: the declared header length decides the decoding: if it is the length
\* the topics imply, no timestamp block is read and the frame without one is
\* decoded; if it is 20 more, the five timestamps are read and the frame with
\* them is decoded; any other length is a decode error and no Message
C21_HeaderLengthDecides ==
    (PeerFrameRead /\ MarkersInOrder) =>
        /\ (input.delta = 0 /\ ~input.ts) =>
               (decoded.err = "nil" /\ decoded.r = <<>>)
        /\ (input.delta = header_LEN_W_TS - header_LEN_NO_TS /\ input.ts) =>
               (decoded.err = "nil" /\ decoded.r = <<>>)
        /\ input.delta \notin {0, header_LEN_W_TS - header_LEN_NO_TS} => Refused

\* unmarshal has read a frame whose declared header length fits no layout
C21_Witness ==
    /\ PeerFrameRead /\ MarkersInOrder /\ input.pkg = "rtmessage"
    /\ input.delta = OddDelta

\* the same three cases for unmarshal alone
C21_Unmarshal ==
    (PeerFrameRead /\ MarkersInOrder /\ input.pkg = "rtmessage") =>
        /\ (input.delta = 0 /\ ~input.ts) =>
               (decoded.err = "nil" /\ decoded.r = <<>>)
        /\ (input.delta = header_LEN_W_TS - header_LEN_NO_TS /\ input.ts) =>
               (decoded.err = "nil" /\ decoded.r = <<>>)

\* unmarshal returns a Message for a frame whose declared header length fits
\* no layout, and the message listeners hear of it
OddLengthHeard ==
    /\ PeerFrameRead /\ MarkersInOrder /\ input.pkg = "rtmessage"
    /\ input.delta = OddDelta /\ ~input.ts
    /\ decoded.err = "nil" /\ heard = <<input.m>>

---------------------------------------------------------------------------
(* Sessions and the readers of earlier sessions. *)

\* thread t may end session k: a caller's Disconnect, or a Disconnect made on
\* the goroutine of the reader of session k itself
MayEnd(t, k) == t \in Callers \/ t = RName(k)

\* C31: the socket of a session is closed, and the context of its reader
\* cancelled, only by a Disconnect of a caller or by a Disconnect that runs on
\* the goroutine of that session's own reader; the reader of an earlier
\* session, on its way out, never ends a later session
C31_EndedByCallerOrOwnReader ==
    [][\A k \in Sessions :
          /\ (~closed[k] /\ closed'[k]) => MayEnd(m, k)
          /\ (~ctxDone[k] /\ ctxDone'[k]) =>
                 \E t \in Threads : dpc[t] = "wait" /\ dpc'[t] = "close" /\ MayEnd(t, k)]_vars

\* the reader of session 1 is at its deferred Disconnect while session 2 is
\* the open one
C31_Witness ==
    /\ rpc[1] = "defer" /\ dpc[RName(1)] = "wait"
    /\ conn = 2 /\ ~closed[2]

---------------------------------------------------------------------------
(* Disconnect against the readLoop. *)

\* C32: the readLoop never uses c.conn after Disconnect has set it to nil: a
\* readLoop that has passed the nil test of setReadDeadline and is about to
\* call unmarshal(c.conn) finds a socket there
C32_ReaderFindsSocket ==
    \A k \in Sessions : rpc[k] = "unmarshal" => conn # NoConn

\* a readLoop is between setReadDeadline and unmarshal while a Disconnect
\* holds the mutex and is about to close the socket
C32_Witness ==
    \E k \in Sessions : \E t \in Threads :
        rpc[k] = "unmarshal" /\ dpc[t] = "close" /\ conn = k

\* the process ended because a readLoop called unmarshal with a nil c.conn:
\* no Disconnect called a nil cancel and no Subscribe wrote to a nil map
NilSocketRead ==
    /\ crashed
    /\ \E k \in Sessions : rpc[k] = "unmarshal" /\ conn = NoConn
    /\ \A t \in Threads : dpc[t] # "panic"
    /\ \A p \in Callers : pc[p] # "panic"

---------------------------------------------------------------------------
(* The ReadState of a readLoop that Connect starts. *)

\* readLoop k of the callback revision runs and its context is not cancelled
CbReaderRuns(k) == cbrpc[k] \in {"select", "readUntil"} /\ ~cbctxDone[k]

\* C33: a readLoop that Connect starts finds c.state at
\* ReadStateReadHeaderPreamble, and a running readLoop sees ReadStateReadHeader
\* or ReadStateReadPayload only while its own header variable holds a header
\* it decoded, also after a Disconnect in the middle of a frame and another
\* Connect
C33_StartsAtPreamble ==
    [][\A k \in Sessions :
          /\ (cbrpc[k] = "idle" /\ cbrpc'[k] # "idle") =>
                 state' = "ReadHeaderPreamble"
          /\ (CbReaderRuns(k)' /\ state' # "ReadHeaderPreamble") =>
                 cbheader'[k].set]_vars

\* a readLoop was stopped in the middle of a frame, the connection is
\* disconnected, and a caller is about to Connect again
C33_Witness ==
    /\ state # "ReadHeaderPreamble"
    /\ con = NoConn
    /\ \E k \in Sessions : cbrpc[k] = "exited" /\ cbctxDone[k]
    /\ \E p \in Callers : cbop[p] = "Connect" /\ cbpc[p] = "begin"

\* the first half alone: Connect starts a readLoop only with c.state at
\* ReadStateReadHeaderPreamble
ReaderStartsAtPreamble ==
    [][\A k \in Sessions :
          (cbrpc[k] = "idle" /\ cbrpc'[k] # "idle") => state' = "ReadHeaderPreamble"]_vars

---------------------------------------------------------------------------
(* Deadlines from one call to the next. *)

\* C34: a deadline taken from the context of one Send does not outlive that
\* call: with no timeout configured, a Send whose context has no deadline is
\* not failed by a write deadline of the socket
C34_DeadlineDoesNotOutliveSend ==
    (readTimeout = 0 /\ writeTimeout = 0 /\ nsend > 0 /\ ctxDeadline = 0)
        => wres = "ok"

\* with no timeout configured, a Send whose context had a deadline has
\* returned and a Send whose context has none has followed it
C34_Witness ==
    /\ readTimeout = 0 /\ writeTimeout = 0
    /\ nsend = MaxSends /\ ctxDeadline = 0
    /\ writeDeadline.called = "set"

\* the earlier of now + timeout and the context's deadline, as far as they
\* exist: 0 only if there is neither
EarlierOf(timeout, ctxd, t) ==
    IF timeout > 0 /\ ctxd # 0 THEN Min(t + timeout, ctxd)
    ELSE IF timeout > 0 THEN t + timeout
    ELSE ctxd

\* C39: sooner(timeout, ctx) is the earlier of now + timeout and the deadline
\* of ctx when both exist, now + timeout when only the timeout exists, the
\* deadline of ctx when the timeout is 0, and the zero time only when there is
\* neither; so the deadline setReadDeadline puts on the socket is that time
C39_SoonerIsTheEarlier ==
    readDeadline # Unset =>
        LET when == EarlierOf(readTimeout, ctxDeadline, now)
        IN  readDeadline = IF when # 0 THEN Deadline(when) ELSE NoDeadline

\* setReadDeadline has run with a read timeout and a context without a
\* deadline, as the context of readLoop is
C39_Witness ==
    /\ readDeadline # Unset
    /\ readTimeout > 0 /\ ctxDeadline = 0

\* the three cases in which sooner is given a deadline of the context or no
\* timeout
C39_WithContextDeadline ==
    (readDeadline # Unset /\ (ctxDeadline # 0 \/ readTimeout = 0)) =>
        LET when == EarlierOf(readTimeout, ctxDeadline, now)
        IN  readDeadline = IF when # 0 THEN Deadline(when) ELSE NoDeadline

---------------------------------------------------------------------------
(* Disconnect while a write makes no progress. *)

\* C35: Disconnect always returns (unless the process has died of a panic),
\* also while the Send of another caller is inside a socket write that makes
\* no progress
C35_DisconnectReturns ==
    \A t \in Callers : (dpc[t] = "wait") ~> (dpc[t] = "none" \/ crashed)

\* a caller has called Disconnect while the Send of the other caller is
\* inside c.conn.Write
C35_Witness ==
    \E t \in Callers : \E p \in Callers \ {t} :
        /\ dpc[t] = "wait"
        /\ op[p] = "Send" /\ pc[p] = "send.Write" /\ m = p
        /\ ~crashed

---------------------------------------------------------------------------
(* AddListener against the readLoop. *)

\* C36: once AddListener has written its subscribe message with route id r,
\* every frame readLoop completes with ControlData = r goes to the callback of
\* that AddListener, also a frame completed before AddListener has returned
C36_SubscribedFrameReachesCallback ==
    [][Len(dispatched') > Len(dispatched) =>
          LET d == dispatched'[Len(dispatched')]
          IN  d.ControlData \in ListenerRoutes => d.to = "handler"]_vars

\* AddListener has written its subscribe message and not yet returned, and
\* readLoop is about to complete a frame
C36_Witness ==
    /\ \E p \in Callers : cbop[p] = "AddListener" /\ cbpc[p] = "register"
    /\ \E k \in Sessions : cbrpc[k] = "readUntil" /\ ~cbctxDone[k]
    /\ state = "ReadPayload"
    /\ con # NoConn /\ ~cbclosed[con]

\* the same for the frames completed after AddListener has returned
AfterReturnReachesCallback ==
    [][Len(dispatched') > Len(dispatched) =>
          LET d == dispatched'[Len(dispatched')]
          IN  (\E p \in Callers : /\ cbop[p] = "AddListener" /\ cbpc[p] = "idle"
                                  /\ cbres[p] = "ok" /\ cbsent[p] = FrameLen
                                  /\ cbframe[p].route = d.ControlData)
              => d.to = "handler"]_vars


---------------------------------------------------------------------------
(* C37: read-error listeners are invoked only for genuine failures of the  *)
(* read path: when a caller's Disconnect closes a healthy connection while *)
(* the reader is blocked in its read, the reader stops and no read-error   *)
(* listener is invoked.                                                     *)

\* the socket of the first session was closed by a caller's Disconnect: it is
\* the only session so far, and no listener that calls Disconnect has run on
\* the reader's goroutine before the reader's read failed
ClosedByCaller(k) ==
    /\ k = 1
    /\ dialed = 1
    /\ closed[k]
    /\ rerr[k] = "closed"
    /\ \A i \in 1..Len(delivered) : delivered[i][1] \notin DisconnectingListeners

C37_DisconnectIsNotReported ==
    \A x \in notified : ~(x[3] = "closed" /\ ClosedByCaller(x[1]))

\* a listener is registered, the reader is blocked in unmarshal on the socket
\* of the first session, and a caller's Disconnect has just closed that socket
C37_Witness ==
    /\ errListeners # <<>>
    /\ dialed = 1
    /\ rpc[1] = "reading"
    /\ rsock[1] = 1
    /\ closed[1]
    /\ rerr[1] = "none"
    /\ delivered = <<>>
    /\ \E p \in Callers : op[p] = "Disconnect" /\ dret[p] = "ok"


---------------------------------------------------------------------------
(* C38: a Subscribe that fails returns an error and leaves the             *)
(* subscription set exactly as it was: called on a disconnected            *)
(* connection it returns ErrInvalidState, the process goes on, and         *)
(* c.subscriptions is unchanged, so that a later Connect does not          *)
(* subscribe to that topic.                                                 *)

====
